---- MODULE Spec2Model ----
(***************************************************************************)
(* P2P Share: the page component (session coordinator and chunk transfer   *)
(* engine) and the WebRTC helpers.  One browser process is modelled with   *)
(* its refs and React state; the peer connection, the data channel, the    *)
(* relay and the disk writer are the environment.                          *)
(*                                                                         *)
(* Every `await` of the source is a point where another handler may run,   *)
(* so each handler is cut at its awaits into one action per segment.       *)
(***************************************************************************)
EXTENDS Integers, Sequences, FiniteSets, TLC

\* ------------------------------------------------------------------------
\* Program constants
\* ------------------------------------------------------------------------
CHUNK_SIZE == 262144
MAX_ICE_RESTARTS == 5
\* sendFile waits until bufferedAmount <= CHUNK_SIZE * 8
HighWaterChunks == 8
\* bindDataChannel sets bufferedAmountLowThreshold = CHUNK_SIZE * 4
LowWaterChunks == 4
\* JSON.stringify({ kind: "done" }) is 15 characters long
DoneLen == 15

\* ------------------------------------------------------------------------
\* Bounds of the model
\* ------------------------------------------------------------------------
\* number of sendFile invocations in one run
MaxSends == 2
\* length of the JSON text of a `meta` control message (depends on the name)
MetaLen == 96
\* number of grace timers (setTimeout 2000) pending at once
MaxTimers == 1
\* number of negotiation sequences (createOffer, onOffer, attemptIceRestart)
\* suspended at an await at once, in the runs of Spec
MaxTasks == 1
\* the same in the runs of SpecNegotiate, which look at their overlap, and
\* the number of restarts those runs go through
MaxOverlap == 2
MaxRestartsSeen == 1
\* candidates heard, and flushPendingIce calls suspended at once, in the
\* runs of SpecIce
MaxArrived == 3
MaxFlushes == 2
\* candidates a peer trickles while a sequence waits for gathering
MaxTrickle == 1
\* envelopes in flight on the relay, suspended sequences of one page and
\* automatic restarts of one page, in
\* the runs of SpecPairLoss
MaxRelay == 1
MaxSequences == 1
\* envelopes of one kind that are counted
MaxPublished == 2
MaxAuto == 6
\* grace timers pending at once in the runs of SpecGrace
MaxGrace == 2
\* length of the candidate sequences handed to the classifier
MaxCandidates == 3
\* number of candidates kept in pendingIceRef
MaxPending == 1

\* the files a user may pick: empty, exactly one chunk, and two chunks and
\* a remainder (700000 = 2 * 262144 + 175712)
FileSizes == {0, CHUNK_SIZE, 700000}
\* binary frames sent in one run, over all sendFile invocations
MaxFrames == 4
\* chunks of the large file of the backpressure runs (more than the
\* high-water mark holds), sent next to a one-chunk file
BigChunks == 9
DrainFileSizes == {CHUNK_SIZE, BigChunks * CHUNK_SIZE}
\* changes of the disk-preference checkbox in one run
MaxToggles == 1
RemotePeers == {"p", "q"}
Me == "me"

VARIABLES
  \* --- session coordinator (refs and React state of the page component)
  role,              \* roleRef.current
  connState,         \* React state connState
  connStateRef,      \* connStateRef.current (synced by an effect after render)
  targetPeer,        \* React state targetPeer
  targetPeerRef,     \* targetPeerRef.current
  iceRestartCount,   \* iceRestartCountRef.current
  signaling,         \* signalingRef.current / unsubRef.current: "none" | "up"
  signalingState,    \* relay connection state
  peer,              \* peerRef.current: "none" | "live"
  pcState,           \* peer.connectionState of the current peer
  remoteDesc,        \* peer.remoteDescription set on the current peer
  pendingIce,        \* pendingIceRef.current (number of queued candidates)
  readyState,        \* channelRef.current.readyState, "none" when no channel
  timers,            \* pending grace timers of onconnectionstatechange
  tasks,             \* suspended negotiation sequences
  staleChannels,     \* channels closed by the page whose close event is due
  \* --- sender side of the data channel (sendFile)
  calls,             \* sendFile invocations: pc, size, offset, sent
  sendProgress,
  txConnState,       \* connState/connStateRef of the sending process
  sentLog,           \* every message handed to channel.send, in order
  nDrained,          \* messages that left the local send buffer
  nDelivered,        \* messages whose onmessage handler was started
  \* --- receiver side of the data channel (ch.onmessage)
  incomingMeta,      \* incomingMetaRef.current
  incomingReceived,  \* incomingReceivedRef.current
  incomingChunks,    \* incomingChunksRef.current
  receiveProgress,
  writableRef,       \* writableRef.current: 0 or the index of a writer
  writers,           \* the writables created so far
  diskOps,           \* handlers suspended on createWritable/write/close
  activeReceiveMode,
  savedToDiskName,
  downloadUrl,
  preferDiskReceive, \* React state
  preferDiskHandler, \* value captured by the registered onmessage closure
  saveHandle,        \* saveHandleRef.current is set
  \* --- candidate diagnostics of a negotiation sequence
  iceGatheringState, \* React state iceGatheringState
  localCandidates,   \* the candidates gathered so far (the classifier's input)
  detectedNat,       \* React state detectedNat
  \* --- remote candidates told apart (the runs of SpecIce)
  arrived,           \* candidates handed to onIce so far; the next is arrived + 1
  iceQueue,          \* pendingIceRef.current, the candidates in order
  flushes,           \* the rest of `pending` in each suspended flushPendingIce
  added,             \* the addIceCandidate calls made, in order
  cleared,           \* candidates a cleanup or reconnect found waiting
  \* --- a sender page and a receiver page on one relay channel (SpecPair)
  pages,             \* the refs and state of each page
  relay,             \* envelopes published and not yet delivered, in order
  sequences,         \* the suspended negotiation sequences of each page
  published,         \* envelopes of each kind published so far
  wait,              \* the waitForIceGatheringComplete of one step (SpecGather)
  \* --- history of the run
  ev,                \* the step just taken
  hist               \* what has happened so far (see HistInit)

sessVars == <<role, connState, connStateRef, targetPeer, targetPeerRef,
              iceRestartCount, signaling, signalingState, peer, pcState,
              remoteDesc, pendingIce, readyState, timers, tasks,
              staleChannels>>
txVars == <<calls, sendProgress, txConnState, sentLog, nDrained>>
rxVars == <<nDelivered, incomingMeta, incomingReceived, incomingChunks,
            receiveProgress, writableRef, writers, diskOps,
            activeReceiveMode, savedToDiskName, downloadUrl,
            preferDiskReceive, preferDiskHandler, saveHandle>>
natVars == <<iceGatheringState, localCandidates, detectedNat>>
iceVars == <<arrived, iceQueue, flushes, added, cleared>>
pairVars == <<pages, relay, sequences, published, wait>>
vars == <<sessVars, txVars, rxVars, natVars, iceVars, pairVars, ev, hist>>

\* ------------------------------------------------------------------------
\* Helpers
\* ------------------------------------------------------------------------
Min(a, b) == IF a < b THEN a ELSE b

\* Math.ceil(a / b) for a >= 0, b > 0
Ceil(a, b) == (a + b - 1) \div b

RECURSIVE SumLen(_)
SumLen(s) == IF s = <<>> THEN 0 ELSE Head(s).len + SumLen(Tail(s))

RECURSIVE SumOver(_, _)
SumOver(S, f) ==
  IF S = {} THEN 0
  ELSE LET x == CHOOSE y \in S : TRUE IN f[x] + SumOver(S \ {x}, f)

\* the first n decimal digits of r / total for r < total, by long division
\* (one digit a step keeps the products within 32-bit integers)
RECURSIVE Digits(_, _, _, _)
Digits(r, total, n, acc) ==
  IF n = 0 THEN acc
  ELSE Digits((r * 10) % total, total, n - 1, acc * 10 + (r * 10) \div total)

\* (part / total) * 100 as whole percents and thousandths of a percent,
\* rounded down
Pct(part, total) ==
  LET d == Digits(part % total, total, 5, 0)
  IN [pct |-> (part \div total) * 100 + d \div 1000, milli |-> d % 1000]
Zero == Pct(0, 1)
Hundred == Pct(1, 1)

\* the Progress component:
\* bounded = Math.max(0, Math.min(100, Number.isFinite(value) ? value : 0))
\* (the values the page passes are finite and not negative)
bounded_uncapped(value) == value
bounded(value) == IF value.pct >= 100 THEN Hundred ELSE value

\* bounded.toFixed(1), in tenths of a percent
toFixed1(value) == value.pct * 10 + (value.milli + 50) \div 100

\* the step just taken: for a data-channel message its kind, the transfer it
\* belongs to and the sink it went to; for a session step the signaling
\* envelope it published; for an envelope that was handled whether it came
\* from the local identity or was addressed to another one (notForMe) and
\* whether it was malformed (also set when its handler resumes); for
\* the step that applied a remote description the
\* number of candidates that were queued
NoEv == [k |-> "init", id |-> 0, sink |-> "none", pub |-> "none", notForMe |-> FALSE,
   malformed |-> FALSE]
Ev(k, id, sink) == [k |-> k, id |-> id, sink |-> sink, pub |-> "none", notForMe |-> FALSE,
   malformed |-> FALSE]
Other == [k |-> "other", id |-> 0, sink |-> "none", pub |-> "none", notForMe |-> FALSE,
   malformed |-> FALSE]
Pub(p) == [k |-> "session", id |-> 0, sink |-> "none", pub |-> p, notForMe |-> FALSE,
   malformed |-> FALSE]

\* ------------------------------------------------------------------------
\* Sender side: sendFile
\* ------------------------------------------------------------------------
TotalChunks(size) == Ceil(size, CHUNK_SIZE)

MetaMsg(i, size) ==
  [t |-> "meta", id |-> i, len |-> MetaLen, size |-> size,
   totalChunks |-> TotalChunks(size)]
BinMsg(i, n) == [t |-> "bin", id |-> i, len |-> n, size |-> 0, totalChunks |-> 0]
DoneMsg(i) == [t |-> "done", id |-> i, len |-> DoneLen, size |-> 0, totalChunks |-> 0]

\* file.slice(offset, Math.min(offset + CHUNK_SIZE, file.size)).byteLength
SliceLen(size, offset) == Min(offset + CHUNK_SIZE, size) - offset

\* channel.bufferedAmount: bytes handed to send() that have not left yet
BufferedAmountOf(log, drained) == SumLen(SubSeq(log, drained + 1, Len(log)))
bufferedAmount == BufferedAmountOf(sentLog, nDrained)

\* waitForBufferedAmountLow resolves at once unless the channel is open and
\* bufferedAmount is above the threshold; then sendFile awaits the slice
waitForBufferedAmountLow(log) ==
  IF BufferedAmountOf(log, nDrained) <= CHUNK_SIZE * HighWaterChunks
  THEN "read" ELSE "wait"

IdleCall == [pc |-> "idle", size |-> 0, offset |-> 0, sent |-> 0]

\* binary frames the invocations made so far will have sent
FramesOf(cs) ==
  SumOver(DOMAIN cs, [i \in DOMAIN cs |->
    IF cs[i].pc = "rejected" THEN 0 ELSE Ceil(cs[i].size, CHUNK_SIZE)])

\* the catch block of sendFile
SendFailed_keepsPhase(i) ==
  /\ calls' = [calls EXCEPT ![i].pc = "failed"]
  /\ UNCHANGED <<txConnState, sendProgress, sentLog>>
SendFailed(i) ==
  /\ calls' = [calls EXCEPT ![i].pc = "failed"]
  /\ txConnState' = "failed"
  /\ UNCHANGED <<sendProgress, sentLog>>

\* if (!file || !channel || channel.readyState !== "open") return;
\* if (file.size === 0) return;
NothingToSend_openOnly(f) == readyState # "open"
NothingToSend(f) == readyState # "open" \/ f = 0

\* sendFile up to its first await; f is the size of the selected file
sendFile(i, f) ==
  /\ calls[i].pc = "idle"
  /\ txConnState = "connected"
  /\ \A j \in 1..(i - 1) : calls[j].pc # "idle"
  /\ IF NothingToSend(f)
     THEN /\ calls' = [calls EXCEPT ![i].pc = "rejected", ![i].size = f]
          /\ UNCHANGED <<sendProgress, sentLog>>
     ELSE LET log == Append(sentLog, MetaMsg(i, f)) IN
          /\ sentLog' = log
          /\ sendProgress' = Zero
          /\ calls' = [calls EXCEPT ![i] =
               [pc |-> waitForBufferedAmountLow(log), size |-> f,
                offset |-> 0, sent |-> 0]]
  /\ ev' = Other
  /\ UNCHANGED <<sessVars, rxVars, txConnState, nDrained, hist>>
  /\ UNCHANGED <<natVars, iceVars, pairVars>>

\* sendFile resumed after `await slice.arrayBuffer()`: send the chunk, then
\* run the loop up to the next await or to the `done` message
sendFileChunk(i) ==
  /\ calls[i].pc = "read"
  /\ LET c == calls[i]
         n == SliceLen(c.size, c.offset)
         off == c.offset + CHUNK_SIZE
         log1 == Append(sentLog, BinMsg(i, n))
     IN IF readyState # "open"
        THEN SendFailed(i)
        ELSE IF off < c.size
             THEN /\ sentLog' = log1
                  /\ sendProgress' = Pct(c.sent + n, c.size)
                  /\ calls' = [calls EXCEPT ![i].pc = waitForBufferedAmountLow(log1),
                                            ![i].offset = off,
                                            ![i].sent = c.sent + n]
                  /\ UNCHANGED txConnState
             ELSE /\ sentLog' = Append(log1, DoneMsg(i))
                  /\ sendProgress' = Hundred
                  /\ calls' = [calls EXCEPT ![i].pc = "done",
                                            ![i].offset = off,
                                            ![i].sent = c.sent + n]
                  /\ UNCHANGED txConnState
  /\ ev' = Other
  /\ UNCHANGED <<sessVars, rxVars, nDrained, hist>>
  /\ UNCHANGED <<natVars, iceVars, pairVars>>

\* the 6 s timer of waitForBufferedAmountLow
bufferDrainTimeout(i) ==
  /\ calls[i].pc = "wait"
  /\ IF readyState = "open" /\ bufferedAmount <= CHUNK_SIZE * HighWaterChunks
     THEN /\ calls' = [calls EXCEPT ![i].pc = "read"]
          /\ UNCHANGED <<sendProgress, sentLog, txConnState>>
     ELSE SendFailed(i)
  /\ ev' = Other
  /\ UNCHANGED <<sessVars, rxVars, nDrained, hist>>
  /\ UNCHANGED <<natVars, iceVars, pairVars>>

\* the transport takes the oldest buffered message; crossing
\* bufferedAmountLowThreshold fires `bufferedamountlow` on every waiter
Drain ==
  /\ readyState = "open"
  /\ nDrained < Len(sentLog)
  /\ nDrained' = nDrained + 1
  /\ LET before == bufferedAmount
         after == BufferedAmountOf(sentLog, nDrained + 1)
         low == CHUNK_SIZE * LowWaterChunks
     IN calls' = [i \in DOMAIN calls |->
                    IF calls[i].pc = "wait" /\ before > low /\ after <= low
                    THEN [calls[i] EXCEPT !.pc = "read"] ELSE calls[i]]
  /\ ev' = Other
  /\ UNCHANGED <<sessVars, rxVars, sendProgress, txConnState, sentLog, hist>>
  /\ UNCHANGED <<natVars, iceVars, pairVars>>

\* ------------------------------------------------------------------------
\* Receiver side: bindDataChannel's onmessage and the disk writer
\* ------------------------------------------------------------------------
NoMeta == [id |-> 0, size |-> 0]
NoUrl == [set |-> FALSE, bytes |-> 0, id |-> 0]

\* abort() on writer w: a write the sink has already started is allowed to
\* finish (the stream is "erroring" until then); with none pending the
\* stream is aborted at once
AbortedState(w) ==
  IF \E j \in DOMAIN diskOps : diskOps[j].k = "write" /\ diskOps[j].w = w
  THEN "erroring" ELSE "aborted"

\* closeWritable: the part before its await.  It clears writableRef and
\* calls abort() or close() on the writer it held.
WritersAfterClose(abort) ==
  IF writableRef = 0 THEN writers
  ELSE [writers EXCEPT ![writableRef].st =
          IF abort THEN AbortedState(writableRef) ELSE "closing"]

\* const total = incomingMetaRef.current?.size ?? 1;
\* const pct = total > 0 ? (received / total) * 100 : 100;
ProgressOf(meta, received) ==
  LET total == IF meta = NoMeta THEN 1 ELSE meta.size
  IN IF total > 0 THEN Pct(received, total) ELSE Hundred

Op(k, w, n, id) == [k |-> k, w |-> w, len |-> n, id |-> id]

RemoveAt(s, i) == SubSeq(s, 1, i - 1) \o SubSeq(s, i + 1, Len(s))

\* incomingReceivedRef.current += chunk.byteLength
addReceived_assign(received, byteLength) == byteLength
addReceived(received, byteLength) == received + byteLength

\* onmessage for a `meta` control message: resetIncomingTransfer, record the
\* meta, then either await createWritable() or stay in memory mode
onMeta(m) ==
  /\ writers' = WritersAfterClose(TRUE)
  /\ writableRef' = 0
  /\ savedToDiskName' = 0
  /\ incomingChunks' = <<>>
  /\ incomingReceived' = 0
  /\ receiveProgress' = Zero
  /\ downloadUrl' = NoUrl
  /\ incomingMeta' = [id |-> m.id, size |-> m.size]
  /\ activeReceiveMode' = "memory"
  /\ IF role = "receiver" /\ preferDiskHandler /\ saveHandle
     THEN diskOps' = Append(diskOps, Op("open", 0, 0, m.id))
     ELSE UNCHANGED diskOps
  /\ hist' = [hist EXCEPT !.deliveredSum = 0, !.rxActive = TRUE, !.sinkUse = {},
                          !.superseded = (writableRef # 0)]
  /\ ev' = Ev("meta", m.id, "none")

\* onmessage for a `done` control message
onDone(m) ==
  /\ IF writableRef # 0
     THEN /\ writers' = WritersAfterClose(FALSE)
          /\ writableRef' = 0
          /\ diskOps' = Append(diskOps, Op("close", writableRef, 0, m.id))
          /\ ev' = Ev("done", m.id, "disk")
          /\ UNCHANGED <<downloadUrl, receiveProgress>>
     ELSE /\ downloadUrl' = [set |-> TRUE, bytes |-> SumLen(incomingChunks),
                             id |-> incomingMeta.id]
          /\ receiveProgress' = Hundred
          /\ ev' = Ev("done", m.id, "memory")
          /\ UNCHANGED <<writers, writableRef, diskOps>>
  /\ hist' = [hist EXCEPT !.rxActive = FALSE]
  /\ UNCHANGED <<incomingMeta, incomingReceived, incomingChunks,
                 activeReceiveMode, savedToDiskName>>

\* onmessage for a binary frame (binaryType is "arraybuffer")
onChunk(m) ==
  /\ IF writableRef # 0
     THEN /\ diskOps' = Append(diskOps, Op("write", writableRef, m.len, m.id))
          /\ ev' = Ev("bin", m.id, "disk")
          /\ hist' = [hist EXCEPT
                 !.deliveredSum = @ + m.len,
                 !.sinkUse = IF hist.rxActive THEN @ \cup {"disk"} ELSE @]
          /\ UNCHANGED <<incomingChunks, incomingReceived, receiveProgress>>
     ELSE /\ incomingChunks' = Append(incomingChunks, [id |-> m.id, len |-> m.len])
          /\ incomingReceived' = addReceived(incomingReceived, m.len)
          /\ receiveProgress' = ProgressOf(incomingMeta, addReceived(incomingReceived, m.len))
          /\ ev' = Ev("bin", m.id, "memory")
          /\ hist' = [hist EXCEPT
                 !.deliveredSum = @ + m.len,
                 !.sinkUse = IF hist.rxActive THEN @ \cup {"memory"} ELSE @]
          /\ UNCHANGED diskOps
  /\ UNCHANGED <<incomingMeta, writableRef, writers, activeReceiveMode,
                 savedToDiskName, downloadUrl>>

\* the channel delivers the next message to ch.onmessage; a delivered
\* message has left the sender's buffer
onmessage ==
  /\ readyState = "open"
  /\ nDelivered < Len(sentLog)
  /\ nDelivered' = nDelivered + 1
  /\ nDrained' = IF nDrained > nDelivered THEN nDrained ELSE nDelivered + 1
  /\ LET m == sentLog[nDelivered + 1]
     IN CASE m.t = "meta" -> onMeta(m)
          [] m.t = "done" -> onDone(m)
          [] OTHER -> onChunk(m)
  /\ UNCHANGED <<sessVars, calls, sendProgress, txConnState, sentLog,
                 preferDiskReceive, preferDiskHandler, saveHandle>>
  /\ UNCHANGED <<natVars, iceVars, pairVars>>

\* whether the promise of a pending operation fulfils: a write on a writer
\* that was aborted or has failed rejects, and so does a close of it; the
\* write that was in the sink when abort() was called may still fulfil
Fulfils(i, ok) ==
  LET op == diskOps[i]
  IN CASE op.k = "open" -> ok
       [] op.k = "write" -> ok /\ writers[op.w].st \in {"open", "closing", "erroring"}
       [] OTHER -> ok /\ writers[op.w].st = "closing"

\* createWritable() settles: the rest of the `meta` branch
createWritableSettled(i, ok) ==
  /\ IF ok
     THEN /\ writers' = Append(writers, [st |-> "open", bytes |-> 0, id |-> diskOps[i].id])
          /\ writableRef' = Len(writers) + 1
          /\ activeReceiveMode' = "disk"
     ELSE /\ activeReceiveMode' = "memory"
          /\ UNCHANGED <<writers, writableRef>>
  /\ hist' = hist
  /\ UNCHANGED <<connState, connStateRef, incomingReceived, receiveProgress,
                 savedToDiskName>>

\* write(chunk) settles: the rest of the binary branch
writeSettled(i, ok) ==
  LET op == diskOps[i]
  IN IF Fulfils(i, ok)
     THEN /\ writers' = [writers EXCEPT ![op.w].bytes = @ + op.len,
                                       ![op.w].st = IF @ = "erroring" THEN "aborted" ELSE @]
          /\ incomingReceived' = addReceived(incomingReceived, op.len)
          /\ receiveProgress' = ProgressOf(incomingMeta, addReceived(incomingReceived, op.len))
          /\ hist' = hist
          /\ UNCHANGED <<connState, connStateRef, writableRef,
                         activeReceiveMode, savedToDiskName>>
     ELSE LET w1 == IF writers[op.w].st \in {"open", "closing"}
                    THEN [writers EXCEPT ![op.w].st = "errored"]
                    ELSE IF writers[op.w].st = "erroring"
                    THEN [writers EXCEPT ![op.w].st = "aborted"] ELSE writers
          IN /\ connState' = "failed"
             /\ connStateRef' = "failed"
             /\ writers' = IF writableRef = 0 THEN w1
                           ELSE [w1 EXCEPT ![writableRef].st =
                                   IF writableRef = op.w THEN "aborted"
                                   ELSE AbortedState(writableRef)]
             /\ writableRef' = 0
             /\ hist' = [hist EXCEPT
                    !.writeFailed = @ \cup {op.id}]
             /\ UNCHANGED <<incomingReceived, receiveProgress,
                            activeReceiveMode, savedToDiskName>>

\* close() settles (closeWritable swallows a rejection): the rest of the
\* `done` branch for the disk sink
closeSettled(i, ok) ==
  LET op == diskOps[i]
  IN /\ writers' = [writers EXCEPT ![op.w].st =
                      IF Fulfils(i, ok) THEN "closed"
                      ELSE IF @ = "closing" THEN "errored" ELSE @]
     /\ savedToDiskName' = IF incomingMeta = NoMeta THEN -1 ELSE incomingMeta.id
     /\ receiveProgress' = Hundred
     /\ hist' = hist
     /\ UNCHANGED <<connState, connStateRef, writableRef, incomingReceived,
                    activeReceiveMode>>

\* a pending disk operation settles; operations on one writer settle in
\* the order they were issued
DiskAck(i, ok) ==
  /\ i \in DOMAIN diskOps
  /\ diskOps[i].k = "open" \/ \A j \in 1..(i - 1) : diskOps[j].w # diskOps[i].w
  /\ diskOps' = RemoveAt(diskOps, i)
  /\ CASE diskOps[i].k = "open" -> createWritableSettled(i, ok)
       [] diskOps[i].k = "write" -> writeSettled(i, ok)
       [] OTHER -> closeSettled(i, ok)
  /\ ev' = Ev(diskOps[i].k, diskOps[i].id, IF Fulfils(i, ok) THEN "ok" ELSE "error")
  /\ UNCHANGED <<role, targetPeer, targetPeerRef, iceRestartCount, signaling,
                 signalingState, peer, pcState, remoteDesc, pendingIce,
                 readyState, timers, tasks, staleChannels>>
  /\ UNCHANGED <<txVars, nDelivered, incomingMeta, incomingChunks, downloadUrl,
                 preferDiskReceive, preferDiskHandler, saveHandle>>
  /\ UNCHANGED <<natVars, iceVars, pairVars>>

\* the checkbox: setPreferDiskReceive, then the effect on preferDiskReceive
setPreferDiskReceive ==
  /\ hist.toggles < MaxToggles
  /\ preferDiskReceive' = ~preferDiskReceive
  /\ IF preferDiskReceive
     THEN /\ writers' = WritersAfterClose(TRUE)
          /\ writableRef' = 0
          /\ activeReceiveMode' = "memory"
     ELSE UNCHANGED <<writers, writableRef, activeReceiveMode>>
  /\ hist' = [hist EXCEPT !.toggles = @ + 1]
  /\ ev' = Other
  /\ UNCHANGED <<sessVars, txVars, nDelivered, incomingMeta, incomingReceived,
                 incomingChunks, receiveProgress, diskOps, savedToDiskName,
                 downloadUrl, preferDiskHandler, saveHandle>>
  /\ UNCHANGED <<natVars, iceVars, pairVars>>

\* the save picker resolves with a handle
prepareSaveLocation ==
  /\ preferDiskReceive
  /\ ~saveHandle
  /\ saveHandle' = TRUE
  /\ ev' = Other
  /\ UNCHANGED <<sessVars, txVars, nDelivered, incomingMeta, incomingReceived,
                 incomingChunks, receiveProgress, writableRef, writers, diskOps,
                 activeReceiveMode, savedToDiskName, downloadUrl,
                 preferDiskReceive, preferDiskHandler, hist>>
  /\ UNCHANGED <<natVars, iceVars, pairVars>>

\* ------------------------------------------------------------------------
\* Session coordinator
\* ------------------------------------------------------------------------
PcStates == {"connecting", "connected", "disconnected", "failed"}
\* "suspended" is handled like "disconnected": a status line only
SigStates == {"connecting", "connected", "disconnected", "failed"}
EnvelopeKinds == {"join", "offer", "answer", "ice", "ice-batch", "ready"}

Task(k, ph) == [k |-> k, ph |-> ph, stale |-> FALSE, bad |-> FALSE]
Stale(ts) == [i \in DOMAIN ts |-> [ts[i] EXCEPT !.stale = TRUE]]

\* channel.close() on channelRef.current: its close event is still to come
ClosedChannels == IF readyState \in {"connecting", "open"}
                  THEN Min(staleChannels + 1, MaxTimers) ELSE staleChannels

\* if (iceRestartCountRef.current >= MAX_ICE_RESTARTS)
BudgetExhausted_gt == iceRestartCount > MAX_ICE_RESTARTS
BudgetExhausted == iceRestartCount >= MAX_ICE_RESTARTS

\* attemptIceRestart up to its first await.  It sets connState by
\* setConnState only, so connStateRef follows at the next render.
attemptIceRestart ==
  IF peer = "none" \/ signaling = "none" \/ targetPeerRef = "none"
  THEN /\ UNCHANGED <<connState, iceRestartCount, tasks>>
       /\ ev' = Pub("none")
       /\ hist' = hist
  ELSE IF BudgetExhausted
  THEN /\ connState' = "failed"
       /\ UNCHANGED <<iceRestartCount, tasks>>
       /\ ev' = Pub("none")
       /\ hist' = [hist EXCEPT !.exhausted = TRUE]
  ELSE /\ iceRestartCount' = iceRestartCount + 1
       /\ connState' = "connecting"
       /\ hist' = hist
       /\ IF role = "sender"
          THEN /\ Len(tasks) < MaxOverlap
               /\ tasks' = Append(tasks, Task("restart", "gather"))
               /\ ev' = Pub("none")
          ELSE /\ UNCHANGED tasks
               /\ ev' = Pub("join")

\* peer.onconnectionstatechange of the current peer; s is the new state
onconnectionstatechange(s) ==
  /\ peer = "live"
  /\ remoteDesc
  /\ s \in PcStates \ {pcState}
  /\ pcState' = s
  /\ CASE s = "connected" ->
            /\ connState' = "connected"
            /\ connStateRef' = "connected"
            /\ iceRestartCount' = 0
            /\ ev' = Pub("none")
            /\ hist' = hist
            /\ UNCHANGED <<tasks, timers>>
       [] s = "failed" ->
            /\ attemptIceRestart
            /\ UNCHANGED <<connStateRef, timers>>
       [] s = "disconnected" ->
            /\ timers < MaxGrace
            /\ timers' = timers + 1
            /\ ev' = Pub("none")
            /\ UNCHANGED <<connState, connStateRef, iceRestartCount, tasks, hist>>
       [] OTHER ->
            /\ connState' = "connecting"
            /\ connStateRef' = "connecting"
            /\ ev' = Pub("none")
            /\ UNCHANGED <<iceRestartCount, tasks, timers, hist>>
  /\ UNCHANGED <<role, targetPeer, targetPeerRef, signaling, signalingState,
                 peer, remoteDesc, pendingIce, readyState, staleChannels>>
  /\ UNCHANGED <<txVars, rxVars>>
  /\ UNCHANGED <<natVars, iceVars, pairVars>>

\* the 2000 ms timer armed by a `disconnected` state
graceTimer ==
  /\ timers > 0
  /\ timers' = timers - 1
  /\ IF peer = "live" /\ pcState = "disconnected"
     THEN attemptIceRestart
     ELSE /\ ev' = Pub("none")
          /\ UNCHANGED <<connState, iceRestartCount, tasks, hist>>
  /\ UNCHANGED <<role, connStateRef, targetPeer, targetPeerRef, signaling,
                 signalingState, peer, pcState, remoteDesc, pendingIce,
                 readyState, staleChannels>>
  /\ UNCHANGED <<txVars, rxVars>>
  /\ UNCHANGED <<natVars, iceVars, pairVars>>

\* the effects that copy React state into the refs after a render
render ==
  /\ connStateRef # connState \/ targetPeerRef # targetPeer
  /\ connStateRef' = connState
  /\ targetPeerRef' = targetPeer
  /\ ev' = Pub("none")
  /\ UNCHANGED <<role, connState, targetPeer, iceRestartCount, signaling,
                 signalingState, peer, pcState, remoteDesc, pendingIce,
                 readyState, timers, tasks, staleChannels>>
  /\ UNCHANGED <<txVars, rxVars, hist>>
  /\ UNCHANGED <<natVars, iceVars, pairVars>>

\* if (msg.from === myId) return; if (msg.to && msg.to !== myId) return;
NotForMe_echoOnly(from, to) == from = Me
NotForMe(from, to) == from = Me \/ (to # "none" /\ to # Me)

\* kinds of envelopes outside the protocol: msg.data is not an object (the
\* wrapper of AblySignaling.subscribe returns), or msg.kind is none of the
\* cases of the switch
OtherKinds == {"nodata", "unknown"}
\* kinds whose handler reads msg.payload
PayloadKinds == {"offer", "answer", "ice", "ice-batch"}

\* the subscribe handler of connectSignaling up to its first await, for an
\* envelope of the given kind, sender and addressee; n is the number of
\* candidates an ice-batch carries; wf tells whether the payload has the
\* shape of its kind (a session description, a candidate, an array)
signal(kind, from, to, n, wf) ==
  /\ signaling = "up"
  /\ LET Heard(p) == [Pub(p) EXCEPT
                       !.notForMe = (from = Me \/ to \notin {"none", Me}),
                       !.malformed = (kind \in OtherKinds
                                        \/ (~wf /\ kind \in PayloadKinds))]
         ignored == /\ ev' = Heard("none")
                    /\ UNCHANGED <<connState, connStateRef, targetPeer,
                                   targetPeerRef, iceRestartCount, peer, pcState,
                                   remoteDesc, pendingIce, readyState, tasks,
                                   staleChannels>>
         unchanged == UNCHANGED <<connState, connStateRef, targetPeer,
                                  targetPeerRef, iceRestartCount, peer, pcState,
                                  remoteDesc, pendingIce, readyState, tasks,
                                  staleChannels>>
     IN IF kind = "nodata" \/ NotForMe(from, to)
        THEN /\ ev' = Heard("none")
             /\ unchanged
        ELSE CASE kind = "join" ->
               IF \/ role # "sender"
                  \/ /\ targetPeerRef # "none"
                     /\ targetPeerRef # from
                     /\ connStateRef = "connected"
               THEN ignored
               ELSE \* createOffer: makePeerConnection, createDataChannel,
                    \* bindDataChannel, then the awaits of the offer
                    /\ Len(tasks) < MaxOverlap
                    /\ targetPeer' = from
                    /\ targetPeerRef' = from
                    /\ iceRestartCount' = 0
                    /\ peer' = "live"
                    /\ pcState' = "new"
                    /\ remoteDesc' = FALSE
                    /\ staleChannels' = ClosedChannels
                    /\ readyState' = "connecting"
                    /\ connState' = "connecting"
                    /\ connStateRef' = "connecting"
                    /\ tasks' = Append(Stale(tasks), Task("offer", "gather"))
                    /\ ev' = Heard("none")
                    /\ UNCHANGED pendingIce
             [] kind = "offer" ->
               IF role # "receiver"
               THEN ignored
               ELSE \* onOffer: makePeerConnection, then await
                    \* setRemoteDescription
                    /\ Len(tasks) < MaxOverlap
                    /\ targetPeer' = from
                    /\ targetPeerRef' = from
                    /\ iceRestartCount' = 0
                    /\ peer' = "live"
                    /\ pcState' = "new"
                    /\ remoteDesc' = FALSE
                    /\ staleChannels' = ClosedChannels
                    /\ readyState' = IF readyState \in {"connecting", "open"}
                                     THEN "closed" ELSE readyState
                    /\ tasks' = Append(Stale(tasks), [Task("answer", "sdp") EXCEPT !.bad = ~wf])
                    /\ ev' = Heard("none")
                    /\ UNCHANGED <<connState, connStateRef, pendingIce>>
             [] kind = "answer" ->
               IF role # "sender" \/ peer = "none"
               THEN ignored
               ELSE \* onAnswer: await setRemoteDescription
                    /\ Len(tasks) < MaxOverlap
                    /\ tasks' = Append(tasks, [Task("setAnswer", "sdp") EXCEPT !.bad = ~wf])
                    /\ ev' = Heard("none")
                    /\ UNCHANGED <<connState, connStateRef, targetPeer,
                                   targetPeerRef, iceRestartCount, peer, pcState,
                                   remoteDesc, pendingIce, readyState,
                                   staleChannels>>
             [] kind \in {"ice", "ice-batch"} ->
               \* onIce, once per candidate (a payload of any shape is
               \* queued; an ice-batch that is not an array is skipped)
               IF kind = "ice-batch" /\ ~wf
               THEN ignored
               ELSE IF peer = "none" \/ ~remoteDesc
               THEN /\ pendingIce + n <= MaxPending
                    /\ pendingIce' = pendingIce + n
                    /\ ev' = Heard("none")
                    /\ UNCHANGED <<connState, connStateRef, targetPeer,
                                   targetPeerRef, iceRestartCount, peer, pcState,
                                   remoteDesc, readyState, tasks, staleChannels>>
               ELSE ignored
             [] OTHER -> ignored
  /\ hist' = hist
  /\ UNCHANGED <<role, signaling, signalingState, timers>>
  /\ UNCHANGED <<txVars, rxVars>>
  /\ UNCHANGED <<natVars, iceVars, pairVars>>

\* flushPendingIce: the length of pendingIceRef.current it leaves.  The queue
\* is copied and emptied before the first addIceCandidate is awaited.
flushPendingIce_keeps(pending) == pending
flushPendingIce(pending) ==
  IF peer = "none" \/ pending = 0 THEN pending ELSE 0

\* a suspended negotiation sequence resumes: createOffer, onOffer, onAnswer
\* or the sender branch of attemptIceRestart after one of its awaits.  ok
\* is the outcome of the awaited call (a closed peer, a malformed
\* description or a failed publish rejects; both catch blocks set connState
\* to failed).
resume(i, ok) ==
  /\ i \in DOMAIN tasks
  /\ LET t == tasks[i]
         rest == RemoveAt(tasks, i)
         failed == /\ connState' = "failed"
                   /\ tasks' = rest
                   /\ ev' = [Pub("none") EXCEPT !.malformed = t.bad]
                   /\ UNCHANGED <<remoteDesc, pendingIce>>
     IN CASE t.ph = "sdp" ->
            \* setRemoteDescription settled, then flushPendingIce
            IF ~ok \/ t.stale \/ t.bad
            THEN failed
            ELSE /\ remoteDesc' = TRUE
                 /\ pendingIce' = flushPendingIce(pendingIce)
                 /\ tasks' = IF t.k = "answer"
                             THEN [tasks EXCEPT ![i].ph = "gather"] ELSE rest
                 /\ ev' = Ev("flush", pendingIce, "none")
                 /\ UNCHANGED connState
         [] t.ph = "gather" ->
            \* waitForIceGatheringComplete settled, then publish
            IF ~ok \/ (t.k = "restart" /\ signaling = "none")
            THEN failed
            ELSE /\ tasks' = [tasks EXCEPT ![i].ph = "batch"]
                 /\ ev' = Pub(IF signaling = "none" THEN "none"
                                ELSE IF t.k = "answer" THEN "answer" ELSE "offer")
                 /\ UNCHANGED <<connState, remoteDesc, pendingIce>>
         [] OTHER ->
            \* the redundant candidate batch, when candidates were gathered
            /\ tasks' = rest
            /\ ev' = Pub(IF ok /\ signaling = "up" THEN "ice-batch" ELSE "none")
            /\ UNCHANGED <<connState, remoteDesc, pendingIce>>
  /\ hist' = hist
  /\ UNCHANGED <<role, connStateRef, targetPeer, targetPeerRef, iceRestartCount,
                 signaling, signalingState, peer, pcState, readyState, timers,
                 staleChannels>>
  /\ UNCHANGED <<txVars, rxVars>>
  /\ UNCHANGED <<natVars, iceVars, pairVars>>

\* ------------------------------------------------------------------------
\* Data channel events (bindDataChannel) and relay state
\* ------------------------------------------------------------------------
\* peer.ondatachannel on the receiver: bindDataChannel(ev.channel)
ondatachannel ==
  /\ role = "receiver"
  /\ peer = "live"
  /\ pcState = "connected"
  /\ readyState \in {"none", "closed"}
  /\ readyState' = "connecting"
  /\ ev' = Pub("none")
  /\ UNCHANGED <<role, connState, connStateRef, targetPeer, targetPeerRef,
                 iceRestartCount, signaling, signalingState, peer, pcState,
                 remoteDesc, pendingIce, timers, tasks, staleChannels>>
  /\ UNCHANGED <<txVars, rxVars, hist>>
  /\ UNCHANGED <<natVars, iceVars, pairVars>>

\* ch.onopen
onopen ==
  /\ readyState = "connecting"
  /\ peer = "live"
  /\ pcState = "connected"
  /\ readyState' = "open"
  /\ connState' = "connected"
  /\ connStateRef' = "connected"
  /\ ev' = Pub(IF role = "receiver" /\ signaling = "up"
                           THEN "ready" ELSE "none")
  /\ UNCHANGED <<role, targetPeer, targetPeerRef, iceRestartCount, signaling,
                 signalingState, peer, pcState, remoteDesc, pendingIce, timers,
                 tasks, staleChannels>>
  /\ UNCHANGED <<txVars, rxVars, hist>>
  /\ UNCHANGED <<natVars, iceVars, pairVars>>

\* the body of ch.onclose
CloseHandler ==
  IF connStateRef # "failed"
  THEN connState' = "idle" /\ connStateRef' = "idle"
  ELSE UNCHANGED <<connState, connStateRef>>

\* the current channel closes (remote close or transport loss): ch.onclose
ChannelCloses ==
  /\ readyState \in {"connecting", "open"}
  /\ readyState' = "closed"
  /\ CloseHandler
  /\ ev' = Pub("none")
  /\ UNCHANGED <<role, targetPeer, targetPeerRef, iceRestartCount, signaling,
                 signalingState, peer, pcState, remoteDesc, pendingIce, timers,
                 tasks, staleChannels>>
  /\ UNCHANGED <<rxVars, hist>>
  /\ UNCHANGED <<natVars, iceVars, pairVars>>

\* the sending process sees the same close: its onclose handler runs, then
\* every waitForBufferedAmountLow listener rejects into sendFile's catch
SenderSeesClose ==
  LET waiting == {i \in DOMAIN calls : calls[i].pc = "wait"}
  IN /\ calls' = [i \in DOMAIN calls |->
                    IF i \in waiting THEN [calls[i] EXCEPT !.pc = "failed"]
                    ELSE calls[i]]
     /\ txConnState' = IF waiting # {} \/ txConnState = "failed"
                       THEN "failed" ELSE "idle"
     /\ UNCHANGED <<sendProgress, sentLog, nDrained>>

\* the close event of a channel the page closed itself
staleClose ==
  /\ staleChannels > 0
  /\ staleChannels' = staleChannels - 1
  /\ CloseHandler
  /\ ev' = Pub("none")
  /\ UNCHANGED <<role, targetPeer, targetPeerRef, iceRestartCount, signaling,
                 signalingState, peer, pcState, remoteDesc, pendingIce,
                 readyState, timers, tasks>>
  /\ UNCHANGED <<txVars, rxVars, hist>>
  /\ UNCHANGED <<natVars, iceVars, pairVars>>

\* ch.onerror
onerror ==
  /\ readyState \in {"connecting", "open"}
  /\ connState' = "failed"
  /\ connStateRef' = "failed"
  /\ ev' = Pub("none")
  /\ UNCHANGED <<role, targetPeer, targetPeerRef, iceRestartCount, signaling,
                 signalingState, peer, pcState, remoteDesc, pendingIce,
                 readyState, timers, tasks, staleChannels>>
  /\ UNCHANGED <<txVars, rxVars, hist>>
  /\ UNCHANGED <<natVars, iceVars, pairVars>>

\* case "failed": setConnState("failed")
RelayFatal_never(s) == FALSE
RelayFatal(s) == s = "failed"

\* the listener of signaling.onConnectionStateChange
onConnectionStateChange(s) ==
  /\ signaling = "up"
  /\ s \in SigStates \ {signalingState}
  /\ signalingState' = s
  /\ IF RelayFatal(s) THEN connState' = "failed" ELSE UNCHANGED connState
  /\ ev' = Pub("none")
  /\ UNCHANGED <<role, connStateRef, targetPeer, targetPeerRef, iceRestartCount,
                 signaling, peer, pcState, remoteDesc, pendingIce, readyState,
                 timers, tasks, staleChannels>>
  /\ UNCHANGED <<txVars, rxVars, hist>>
  /\ UNCHANGED <<natVars, iceVars, pairVars>>

\* ------------------------------------------------------------------------
\* User operations
\* ------------------------------------------------------------------------
\* pendingIceRef.current = []: the queue is dropped; the candidates in it, and
\* those a suspended flushPendingIce still holds, were waiting
Waiting ==
  {iceQueue[i] : i \in DOMAIN iceQueue}
    \cup UNION {{flushes[f][i] : i \in DOMAIN flushes[f]} : f \in DOMAIN flushes}
ClearIceQueue ==
  /\ iceQueue' = <<>>
  /\ cleared' = cleared \cup Waiting
  /\ UNCHANGED <<arrived, flushes, added>>

\* cleanup(true): everything but connState/connStateRef, which the callers
\* differ on (cleanup itself only calls setConnState("idle"))
cleanup ==
  /\ writers' = WritersAfterClose(TRUE)
  /\ writableRef' = 0
  /\ staleChannels' = ClosedChannels
  /\ readyState' = "none"
  /\ peer' = "none"
  /\ pcState' = "new"
  /\ remoteDesc' = FALSE
  /\ pendingIce' = 0
  /\ iceRestartCount' = 0
  /\ tasks' = Stale(tasks)
  /\ targetPeer' = "none"
  /\ sendProgress' = Zero
  /\ receiveProgress' = Zero
  /\ incomingMeta' = NoMeta
  /\ incomingChunks' = <<>>
  /\ incomingReceived' = 0
  /\ activeReceiveMode' = "memory"
  /\ savedToDiskName' = 0
  /\ UNCHANGED <<role, targetPeerRef, timers>>
  /\ UNCHANGED <<calls, txConnState, sentLog, nDrained, nDelivered, diskOps,
                 downloadUrl, preferDiskReceive, saveHandle>>
  /\ ClearIceQueue
  /\ UNCHANGED <<natVars, pairVars>>

\* the calls cleanup() makes on the objects it holds, in the order of its
\* statements; each is made only when the ref is set (`?.`, and the early
\* return of closeWritable)
cleanupCalls ==
  (IF writableRef # 0 THEN <<"abort sink">> ELSE <<>>)
    \o (IF signaling # "none" THEN <<"unsubscribe", "close relay">> ELSE <<>>)
    \o (IF readyState # "none" THEN <<"close channel">> ELSE <<>>)
    \o (IF peer # "none" THEN <<"close peer">> ELSE <<>>)
    \o <<"clear queue", "clear progress">>

\* cleanup() called on its own, with resetUi = true; ev.id counts the calls
\* made in a row (up to two)
teardown_keepsPhase ==
  /\ cleanup
  /\ UNCHANGED <<connState, connStateRef, preferDiskHandler, hist>>
  /\ signaling' = "none"
  /\ signalingState' = "idle"
  /\ ev' = Ev("teardown", IF ev.k = "teardown" THEN 2 ELSE 1, "none")
teardown ==
  /\ cleanup
  /\ connState' = "idle"
  /\ UNCHANGED <<connStateRef, preferDiskHandler, hist>>
  /\ signaling' = "none"
  /\ signalingState' = "idle"
  /\ ev' = Ev("teardown", IF ev.k = "teardown" THEN 2 ELSE 1, "none")

\* startAsSender: cleanup, then connectSignaling
startAsSender ==
  /\ role = "sender"
  /\ cleanup
  /\ connState' = "idle"
  /\ UNCHANGED connStateRef
  /\ signaling' = "up"
  /\ signalingState' = "connecting"
  /\ preferDiskHandler' = preferDiskReceive
  /\ ev' = Pub("none")
  /\ hist' = [hist EXCEPT !.exhausted = FALSE]

\* joinAsReceiver: cleanup, connectSignaling, publish join
joinAsReceiver ==
  /\ role = "receiver"
  /\ cleanup
  /\ connState' = "connecting"
  /\ connStateRef' = "connecting"
  /\ signaling' = "up"
  /\ signalingState' = "connecting"
  /\ preferDiskHandler' = preferDiskReceive
  /\ ev' = Pub("join")
  /\ hist' = [hist EXCEPT !.exhausted = FALSE]

\* reconnect, offered by the page while connState is failed
reconnect ==
  /\ connState = "failed"
  /\ signaling = "up"
  /\ connState' = "connecting"
  /\ connStateRef' = "connecting"
  /\ iceRestartCount' = 0
  /\ staleChannels' = ClosedChannels
  /\ readyState' = "none"
  /\ peer' = "none"
  /\ pcState' = "new"
  /\ remoteDesc' = FALSE
  /\ pendingIce' = 0
  /\ tasks' = Stale(tasks)
  /\ IF signalingState # "connected"
     THEN /\ signalingState' = "connecting"
          /\ preferDiskHandler' = preferDiskReceive
     ELSE UNCHANGED <<signalingState, preferDiskHandler>>
  /\ ev' = Pub(IF role = "receiver" THEN "join" ELSE "none")
  /\ hist' = [hist EXCEPT !.exhausted = FALSE]
  /\ UNCHANGED <<role, targetPeer, targetPeerRef, signaling, timers>>
  /\ UNCHANGED <<txVars, nDelivered, incomingMeta, incomingReceived,
                 incomingChunks, receiveProgress, writableRef, writers, diskOps,
                 activeReceiveMode, savedToDiskName, downloadUrl,
                 preferDiskReceive, saveHandle>>
  /\ ClearIceQueue
  /\ UNCHANGED <<natVars, pairVars>>

\* ch.onclose on a process that is not sending
onclose == ChannelCloses /\ UNCHANGED txVars

\* the channel closes under a transfer: both ends run their handlers
channelClosed == ChannelCloses /\ SenderSeesClose

\* the sender's channel fires `error` while it is open: ch.onerror sets
\* failed, and the onError listener of every waitForBufferedAmountLow
\* rejects into sendFile's catch
channelErrored ==
  /\ readyState = "open"
  /\ calls' = [i \in DOMAIN calls |->
                 IF calls[i].pc = "wait" THEN [calls[i] EXCEPT !.pc = "failed"]
                 ELSE calls[i]]
  /\ txConnState' = "failed"
  /\ ev' = Other
  /\ UNCHANGED <<sendProgress, sentLog, nDrained>>
  /\ UNCHANGED <<sessVars, rxVars, hist>>
  /\ UNCHANGED <<natVars, iceVars, pairVars>>

\* ------------------------------------------------------------------------
\* Specifications
\* ------------------------------------------------------------------------
HistInit ==
  [exhausted |-> FALSE,    \* attemptIceRestart found the budget used up
   deliveredSum |-> 0,     \* bytes of the frames delivered since the last meta
   rxActive |-> FALSE,     \* a meta was processed and its done was not yet
   sinkUse |-> {},         \* sinks the frames of the current transfer went to
   writeFailed |-> {},     \* transfers one of whose disk writes failed
   toggles |-> 0,          \* changes of the disk preference
   superseded |-> FALSE]   \* the last meta found a disk writer still open

\* ------------------------------------------------------------------------
\* waitForIceGatheringComplete in one negotiation step
\* ------------------------------------------------------------------------
NegotiationSteps == {"offer", "answer", "restart"}
DescriptionOf(step) == IF step = "answer" THEN "answer" ELSE "offer"

\* no step is waiting
NoWait ==
  [step |-> "none",
   ph |-> "idle",            \* idle, waiting, resolved, published, done
   state |-> "new",          \* pc.iceGatheringState
   ended |-> FALSE,          \* the null candidate has been fired
   emitted |-> 0,            \* candidates the peer has fired
   settled |-> FALSE,
   timer |-> FALSE,          \* the timeout is pending
   listening |-> FALSE,      \* onIce and onStateChange are registered
   gathered |-> <<>>,
   during |-> <<>>,          \* candidates fired while the promise was pending
   finishes |-> 0,           \* runs of finish past its guard
   sent |-> <<>>]            \* envelopes the step has published, in order

restOfPage == <<sessVars, txVars, rxVars, natVars, iceVars, ev, hist>>

\* finish, with the guard on settled
finish_again(w) ==
  [w EXCEPT !.finishes = @ + 1,
            !.ph = IF @ = "waiting" THEN "resolved" ELSE @]
finish(w) ==
  IF w.settled
  THEN w
  ELSE [w EXCEPT !.settled = TRUE, !.timer = FALSE, !.listening = FALSE,
                 !.finishes = @ + 1, !.ph = "resolved"]

waitStep(w) ==
  /\ wait' = w
  /\ UNCHANGED <<pages, relay, sequences, published>>
  /\ UNCHANGED restOfPage

\* a step has set its local description and calls
\* waitForIceGatheringComplete, with the peer's gathering in state g
waitForIceGatheringComplete(step, g) ==
  /\ wait.ph \in {"idle", "done"}
  /\ waitStep(IF g = "complete"
              THEN [NoWait EXCEPT !.step = step, !.state = g, !.ended = TRUE,
                                  !.ph = "resolved"]
              ELSE [NoWait EXCEPT !.step = step, !.state = g, !.ph = "waiting",
                                  !.timer = TRUE, !.listening = TRUE])

\* the peer starts gathering: onStateChange sees a state other than complete
gatheringStarts ==
  /\ wait.ph # "idle"
  /\ wait.state = "new"
  /\ waitStep([wait EXCEPT !.state = "gathering"])

\* icecandidate with a candidate: onIce
icecandidate(c) ==
  /\ wait.state = "gathering"
  /\ ~wait.ended
  /\ wait.emitted < MaxCandidates
  /\ waitStep([wait EXCEPT
        !.emitted = @ + 1,
        !.gathered = IF wait.listening THEN Append(@, c) ELSE @,
        !.during = IF wait.ph = "waiting" THEN Append(@, c) ELSE @])

\* icegatheringstatechange to complete: onStateChange
gatheringCompletes ==
  /\ wait.state = "gathering"
  /\ LET w == [wait EXCEPT !.state = "complete"]
     IN waitStep(IF wait.listening THEN finish(w) ELSE w)

\* icecandidate with the null candidate: onIce
endOfCandidates ==
  /\ wait.state # "new"
  /\ ~wait.ended
  /\ LET w == [wait EXCEPT !.ended = TRUE]
     IN waitStep(IF wait.listening THEN finish(w) ELSE w)

\* the timeout of ICE_GATHER_TIMEOUT_MS fires
gatherTimeout ==
  /\ wait.timer
  /\ waitStep(finish([wait EXCEPT !.timer = FALSE]))

\* the step goes on after the wait and publishes its description
publishDescription ==
  /\ wait.ph = "resolved"
  /\ waitStep([wait EXCEPT
        !.ph = "published",
        !.sent = Append(@, [kind |-> DescriptionOf(wait.step), payload |-> <<>>])])

\* if (gathered.length > 0) publish the batch
publishBatch ==
  /\ wait.ph = "published"
  /\ waitStep([wait EXCEPT
        !.ph = "done",
        !.sent = IF Len(wait.gathered) > 0
                 THEN Append(@, [kind |-> "ice-batch", payload |-> wait.gathered])
                 ELSE @])

NextGather ==
  \/ \E step \in NegotiationSteps, g \in {"new", "gathering", "complete"} :
       waitForIceGatheringComplete(step, g)
  \/ gatheringStarts
  \/ \E c \in 1..MaxCandidates : icecandidate(c)
  \/ gatheringCompletes
  \/ endOfCandidates
  \/ gatherTimeout
  \/ publishDescription
  \/ publishBatch

\* the timer fires unless it is cleared, and the publishes settle; the
\* peer's gathering may never progress
FairGather ==
  /\ WF_vars(gatherTimeout)
  /\ WF_vars(publishDescription)
  /\ WF_vars(publishBatch)

\* ------------------------------------------------------------------------
\* Two pages on one relay channel: the sender "s" and the receiver "r"
\* ------------------------------------------------------------------------
Parties == {"s", "r"}
RoleOf(p) == IF p = "s" THEN "sender" ELSE "receiver"
OtherParty(p) == IF p = "s" THEN "r" ELSE "s"

\* the refs of one page. Peer connections are numbered as they are made,
\* with the least number no page, envelope or sequence still refers to;
\* peer is the number of peerRef.current (0: null) and remote the number of
\* the peer whose description it has applied (0: none). The sender's page
\* has run startAsSender; the receiver's has not joined yet.
PageInit(p) ==
  [sig |-> (p = "s"),        \* signalingRef.current is set and subscribed
   connState |-> "idle",     \* connState and connStateRef
   target |-> "none",        \* targetPeerRef.current
   count |-> 0,              \* iceRestartCountRef.current
   peer |-> 0,
   remote |-> 0,
   offering |-> FALSE,       \* a local offer waits for its answer
   pc |-> "new",             \* connectionState of the current peer
   tried |-> 0,              \* the remote description it last failed with
   ch |-> "none",            \* readyState of channelRef.current
   queued |-> 0,             \* length of pendingIceRef.current
   trickled |-> 0,           \* candidates the current peer has gathered
   auto |-> 0]               \* attemptIceRestart runs since the last connected

EnvelopeCounts ==
  [k \in {"join", "offer", "answer", "ice", "ice-batch", "ready"} |-> 0]

InitPair ==
  /\ pages = [p \in Parties |-> PageInit(p)]
  /\ relay = <<>>
  /\ sequences = [p \in Parties |-> <<>>]
  /\ published = EnvelopeCounts
  /\ wait = NoWait

Envelope(kind, from, to, gen, re) ==
  [kind |-> kind, from |-> from, to |-> to, gen |-> gen, re |-> re]

Sequence(k, ph, n, re) == [k |-> k, ph |-> ph, peer |-> n, re |-> re, stale |-> FALSE]

\* makePeerConnection: the old peer is closed and peer n takes its place
MakePeer(g, n) ==
  [g EXCEPT !.peer = n, !.remote = 0, !.offering = FALSE, !.pc = "new",
            !.trickled = 0]

\* signaling.publish; the envelopes of a kind are counted up to MaxPublished
publish(e) ==
  /\ relay' = Append(relay, e)
  /\ published' = [published EXCEPT ![e.kind] = Min(@ + 1, MaxPublished)]

\* new RTCPeerConnection: the number of the next peer
PeersInUse ==
  UNION {{pages[p].peer, pages[p].remote, pages[p].tried} : p \in Parties}
    \cup UNION {{relay[i].gen, relay[i].re} : i \in DOMAIN relay}
    \cup UNION {UNION {{sequences[p][i].peer, sequences[p][i].re} :
                         i \in DOMAIN sequences[p]} : p \in Parties}
createPeerConnection ==
  CHOOSE n \in 1..(Cardinality(PeersInUse) + 1) :
    n \notin PeersInUse /\ \A m \in 1..(n - 1) : m \in PeersInUse

pairRest == <<restOfPage, wait>>

\* joinAsReceiver: cleanup, connectSignaling, publish join
pairJoinAsReceiver ==
  /\ ~pages["r"].sig
  /\ pages' = [pages EXCEPT !["r"] =
                 [PageInit("r") EXCEPT !.sig = TRUE, !.connState = "connecting"]]
  /\ sequences' = [sequences EXCEPT !["r"] = Stale(@)]
  /\ publish(Envelope("join", "r", "none", 0, 0))
  /\ UNCHANGED pairRest

\* if (currentRole !== "sender") return  /  "receiver"
HearsJoin(p) == RoleOf(p) = "sender"
HearsOffer_sender(p) == RoleOf(p) = "sender"
HearsOffer(p) == RoleOf(p) = "receiver"
HearsAnswer(p) == RoleOf(p) = "sender"

\* the relay delivers its oldest envelope to the page that did not publish
\* it: the subscribe handler up to its first await
hear ==
  /\ relay # <<>>
  /\ relay' = Tail(relay)
  /\ LET e == Head(relay)
         p == OtherParty(e.from)
         g == pages[p]
         n == createPeerConnection
         ignored == UNCHANGED <<pages, sequences, published>>
     IN IF ~g.sig \/ (e.to # "none" /\ e.to # p)
        THEN ignored
        ELSE CASE e.kind = "join" ->
               IF \/ ~HearsJoin(p)
                  \/ g.target \notin {"none", e.from} /\ g.connState = "connected"
               THEN ignored
               ELSE /\ pages' = [pages EXCEPT ![p] =
                          [MakePeer(g, n) EXCEPT !.target = e.from, !.count = 0,
                                                 !.ch = "connecting",
                                                 !.offering = TRUE,
                                                 !.connState = "connecting"]]
                    /\ sequences' = [sequences EXCEPT ![p] =
                          Append(Stale(@), Sequence("offer", "gather", n, 0))]
                    /\ UNCHANGED published
             [] e.kind = "offer" ->
               IF ~HearsOffer(p)
               THEN ignored
               ELSE /\ pages' = [pages EXCEPT ![p] =
                          [MakePeer(g, n) EXCEPT !.target = e.from, !.count = 0]]
                    /\ sequences' = [sequences EXCEPT ![p] =
                          Append(Stale(@), Sequence("answer", "sdp", n, e.gen))]
                    /\ UNCHANGED published
             [] e.kind = "answer" ->
               IF ~HearsAnswer(p) \/ g.peer = 0
               THEN ignored
               ELSE /\ sequences' = [sequences EXCEPT ![p] =
                          Append(@, [Sequence("setAnswer", "sdp", g.peer, e.gen)
                                       EXCEPT !.stale = ~g.offering])]
                    /\ UNCHANGED <<pages, published>>
             [] e.kind \in {"ice", "ice-batch"} ->
               \* onIce: queued (counted up to MaxPending) or handed to the peer
               /\ pages' = IF g.peer = 0 \/ g.remote = 0
                           THEN [pages EXCEPT ![p].queued = Min(@ + 1, MaxPending)]
                           ELSE pages
               /\ UNCHANGED <<sequences, published>>
             [] OTHER -> ignored
  /\ UNCHANGED pairRest

\* a suspended sequence of page p goes on after its await: createOffer,
\* onOffer, onAnswer or the sender branch of attemptIceRestart. A
\* setRemoteDescription on a closed peer, or of an answer with no offer
\* waiting for it, rejects into the catch, which sets connState failed. A
\* peer closed during createOffer or setLocalDescription rejects as well
\* (ok false); one closed during the gathering wait still has its
\* description published.
proceed(p, i, ok) ==
  /\ i \in DOMAIN sequences[p]
  /\ ok \/ (sequences[p][i].stale /\ sequences[p][i].ph = "gather")
  /\ LET q == sequences[p][i]
         g == pages[p]
         rest == RemoveAt(sequences[p], i)
     IN IF q.stale /\ (q.ph = "sdp" \/ (q.ph = "gather" /\ ~ok))
        THEN /\ pages' = [pages EXCEPT ![p].connState = "failed"]
             /\ sequences' = [sequences EXCEPT ![p] = rest]
             /\ UNCHANGED <<relay, published>>
        ELSE CASE q.ph = "sdp" ->
               \* setRemoteDescription resolved, then flushPendingIce
               /\ pages' = [pages EXCEPT ![p].remote = q.re, ![p].queued = 0,
                                         ![p].offering = FALSE]
               /\ sequences' = [sequences EXCEPT ![p] =
                     IF q.k = "answer" THEN [@ EXCEPT ![i].ph = "gather"] ELSE rest]
               /\ UNCHANGED <<relay, published>>
             [] q.ph = "gather" ->
               \* the gathering wait is over: publish the description
               /\ IF g.sig
                  THEN publish(Envelope(IF q.k = "answer" THEN "answer" ELSE "offer",
                                        p, g.target, q.peer, g.remote))
                  ELSE UNCHANGED <<relay, published>>
               /\ sequences' = [sequences EXCEPT ![p] = [@ EXCEPT ![i].ph = "batch"]]
               /\ UNCHANGED pages
             [] OTHER ->
               \* the redundant batch, if candidates were gathered
               /\ IF g.sig /\ g.trickled > 0
                  THEN publish(Envelope("ice-batch", p, g.target, q.peer, 0))
                  ELSE UNCHANGED <<relay, published>>
               /\ sequences' = [sequences EXCEPT ![p] = rest]
               /\ UNCHANGED pages
  /\ UNCHANGED pairRest

\* peer.onicecandidate while a sequence waits for gathering: trickle the
\* candidate
onicecandidate(p) ==
  /\ pages[p].trickled < MaxTrickle
  /\ \E i \in DOMAIN sequences[p] :
       /\ sequences[p][i].ph = "gather"
       /\ sequences[p][i].peer = pages[p].peer
       /\ ~sequences[p][i].stale
  /\ pages' = [pages EXCEPT ![p].trickled = @ + 1]
  /\ IF pages[p].sig
     THEN publish(Envelope("ice", p, pages[p].target, pages[p].peer, 0))
     ELSE UNCHANGED <<relay, published>>
  /\ UNCHANGED sequences
  /\ UNCHANGED pairRest

\* the two current peers have applied each other's description
Matched ==
  /\ pages["s"].peer # 0
  /\ pages["r"].peer # 0
  /\ pages["s"].remote = pages["r"].peer
  /\ pages["r"].remote = pages["s"].peer

\* attemptIceRestart of page p, up to its first await
pairAttemptIceRestart(p) ==
  LET g == pages[p]
  IN IF g.peer = 0 \/ ~g.sig \/ g.target = "none"
     THEN UNCHANGED <<sequences, relay, published>>
          /\ pages' = [pages EXCEPT ![p].pc = "failed", ![p].tried = g.remote]
     ELSE IF g.count >= MAX_ICE_RESTARTS
     THEN /\ pages' = [pages EXCEPT ![p].pc = "failed", ![p].tried = g.remote,
                                   ![p].connState = "failed"]
          /\ UNCHANGED <<sequences, relay, published>>
     ELSE /\ pages' = [pages EXCEPT ![p].pc = "failed", ![p].tried = g.remote,
                                   ![p].count = @ + 1,
                                   ![p].auto = @ + 1,
                                   ![p].offering = (RoleOf(p) = "sender") \/ @,
                                   ![p].connState = "connecting"]
          /\ IF RoleOf(p) = "sender"
             THEN /\ sequences' = [sequences EXCEPT ![p] =
                        Append(@, Sequence("restart", "gather", g.peer, 0))]
                  /\ UNCHANGED <<relay, published>>
             ELSE /\ publish(Envelope("join", p, "none", 0, 0))
                  /\ UNCHANGED sequences

\* peer.onconnectionstatechange of the current peer of page p. The transport
\* starts connecting once the peer has both descriptions, or a new remote
\* description after it failed, and connects when the two peers are matched.
pairConnectionState(p, s) ==
  /\ pages[p].peer # 0
  /\ pages[p].remote # 0
  /\ CASE s = "connecting" ->
            /\ \/ pages[p].pc = "new"
               \/ pages[p].pc = "failed" /\ pages[p].remote # pages[p].tried
            /\ pages' = [pages EXCEPT ![p].pc = s, ![p].connState = "connecting"]
            /\ UNCHANGED <<sequences, relay, published>>
       [] s = "connected" ->
            /\ pages[p].pc \in {"new", "connecting"}
            /\ Matched
            /\ pages' = [pages EXCEPT ![p].pc = s, ![p].connState = "connected",
                                      ![p].count = 0, ![p].auto = 0]
            /\ UNCHANGED <<sequences, relay, published>>
       [] OTHER ->
            /\ s = "failed"
            /\ pages[p].pc = "connecting"
            /\ pairAttemptIceRestart(p)
  /\ UNCHANGED pairRest

\* the channel of the connected pair opens: ch.onopen on the sender, and on
\* the receiver peer.ondatachannel (bindDataChannel), then ch.onopen, which
\* also publishes ready
pairChannelOpens(p) ==
  /\ Matched
  /\ pages["s"].pc = "connected" /\ pages["r"].pc = "connected"
  /\ IF RoleOf(p) = "sender"
     THEN /\ pages[p].ch = "connecting"
          /\ pages' = [pages EXCEPT ![p].ch = "open", ![p].connState = "connected"]
          /\ UNCHANGED <<relay, published>>
     ELSE /\ pages["s"].ch \in {"connecting", "open"}
          /\ pages[p].ch # "open"
          /\ pages' = [pages EXCEPT ![p].ch = "open", ![p].connState = "connected"]
          /\ IF pages[p].sig
             THEN publish(Envelope("ready", p, pages[p].target, pages[p].peer, 0))
             ELSE UNCHANGED <<relay, published>>
  /\ UNCHANGED sequences
  /\ UNCHANGED pairRest

\* the handshake: the receiver joins a room the sender has created, the
\* relay delivers every envelope in order, every awaited call settles, and
\* the transport connects matched peers
NextPair ==
  \/ pairJoinAsReceiver
  \/ hear
  \/ \E p \in Parties, i \in 1..MaxOverlap, ok \in BOOLEAN : proceed(p, i, ok)
  \/ \E p \in Parties : onicecandidate(p)
  \/ \E p \in Parties, s \in {"connecting", "connected"} : pairConnectionState(p, s)
  \/ \E p \in Parties : pairChannelOpens(p)

FairPair ==
  /\ WF_vars(pairJoinAsReceiver)
  /\ WF_vars(hear)
  /\ \A p \in Parties :
       /\ \A i \in 1..MaxOverlap : WF_vars(proceed(p, i, TRUE))
       /\ WF_vars(pairConnectionState(p, "connected"))
       /\ WF_vars(pairChannelOpens(p))

InitTransferIdle ==
  /\ calls = [i \in 1..MaxSends |-> IdleCall]
  /\ sendProgress = Zero
  /\ sentLog = <<>>
  /\ nDrained = 0
  /\ nDelivered = 0
  /\ incomingMeta = NoMeta
  /\ incomingReceived = 0
  /\ incomingChunks = <<>>
  /\ receiveProgress = Zero
  /\ writableRef = 0
  /\ writers = <<>>
  /\ diskOps = <<>>
  /\ activeReceiveMode = "memory"
  /\ savedToDiskName = 0
  /\ downloadUrl = NoUrl
  /\ iceGatheringState = "new"
  /\ localCandidates = <<>>
  /\ detectedNat = "unknown"
  /\ arrived = 0
  /\ iceQueue = <<>>
  /\ flushes = <<>>
  /\ added = <<>>
  /\ cleared = {}
  /\ InitPair
  /\ ev = NoEv
  /\ hist = HistInit

\* sender and addressee of the envelopes a page hears in the runs of Spec,
\* SpecNegotiate and SpecMalformed: from the remote peer to this page or to
\* the whole room, and the two the handler discards (its own envelope, and
\* one addressed to another page). SpecThird has a second remote peer.
Addressing == {<<"p", Me>>, <<"p", "none">>, <<Me, "none">>, <<"p", "other">>}

\* the page right after mount: the user has picked a role, nothing started
Init ==
  /\ role \in {"sender", "receiver"}
  /\ connState = "idle"
  /\ connStateRef = "idle"
  /\ targetPeer = "none"
  /\ targetPeerRef = "none"
  /\ iceRestartCount = 0
  /\ signaling = "none"
  /\ signalingState = "idle"
  /\ peer = "none"
  /\ pcState = "new"
  /\ remoteDesc = FALSE
  /\ pendingIce = 0
  /\ readyState = "none"
  /\ timers = 0
  /\ tasks = <<>>
  /\ staleChannels = 0
  /\ txConnState = "idle"
  /\ preferDiskReceive = TRUE
  /\ preferDiskHandler = TRUE
  /\ saveHandle = FALSE
  /\ InitTransferIdle

Next ==
  \/ \E k \in EnvelopeKinds, a \in Addressing, n \in 1..MaxPending :
       signal(k, a[1], a[2], n, TRUE) /\ Len(tasks') <= MaxTasks
  \/ \E i \in 1..MaxTasks, ok \in BOOLEAN : resume(i, ok)
  \/ \E s \in PcStates :
       onconnectionstatechange(s) /\ Len(tasks') <= MaxTasks
         /\ timers' <= MaxTimers
  \/ graceTimer /\ Len(tasks') <= MaxTasks
  \/ render
  \/ ondatachannel
  \/ onopen
  \/ onclose
  \/ staleClose
  \/ onerror
  \/ \E s \in SigStates : onConnectionStateChange(s)
  \/ startAsSender
  \/ joinAsReceiver
  \/ reconnect

Spec == Init /\ [][Next]_vars

\* the same page with room for two suspended negotiation sequences
InNegotiateBounds ==
  /\ Len(tasks') <= MaxOverlap
  /\ iceRestartCount' <= MaxRestartsSeen
  /\ timers' <= MaxTimers

NextNegotiate ==
  \/ \E k \in EnvelopeKinds, a \in Addressing, n \in 1..MaxPending :
       signal(k, a[1], a[2], n, TRUE) /\ InNegotiateBounds
  \/ \E i \in 1..MaxOverlap, ok \in BOOLEAN : resume(i, ok)
  \/ \E s \in PcStates : onconnectionstatechange(s) /\ InNegotiateBounds
  \/ graceTimer /\ InNegotiateBounds
  \/ render
  \/ ondatachannel
  \/ onopen
  \/ onclose
  \/ staleClose
  \/ onerror
  \/ \E s \in SigStates : onConnectionStateChange(s)
  \/ startAsSender
  \/ joinAsReceiver
  \/ reconnect

SpecNegotiate == Init /\ [][NextNegotiate]_vars

\* the same page receiving envelopes of every kind and shape, with one
\* suspended sequence at a time
InMalformedBounds ==
  /\ Len(tasks') <= MaxTasks
  /\ iceRestartCount' <= MaxRestartsSeen
  /\ timers' <= MaxTimers

NextMalformed ==
  \/ \E k \in EnvelopeKinds \cup OtherKinds, a \in Addressing,
        n \in 1..MaxPending, wf \in BOOLEAN :
       signal(k, a[1], a[2], n, wf) /\ InMalformedBounds
  \/ \E i \in 1..MaxTasks, ok \in BOOLEAN : resume(i, ok)
  \/ \E s \in PcStates : onconnectionstatechange(s) /\ InMalformedBounds
  \/ graceTimer /\ InMalformedBounds
  \/ render
  \/ ondatachannel
  \/ onopen
  \/ onclose
  \/ staleClose
  \/ onerror
  \/ \E s \in SigStates : onConnectionStateChange(s)
  \/ startAsSender
  \/ joinAsReceiver
  \/ reconnect

SpecMalformed == Init /\ [][NextMalformed]_vars

\* two connected pages with an open channel: the remote one sends files,
\* this one receives them
InitXfer ==
  /\ role = "receiver"
  /\ connState = "connected"
  /\ connStateRef = "connected"
  /\ targetPeer = "p"
  /\ targetPeerRef = "p"
  /\ iceRestartCount = 0
  /\ signaling = "up"
  /\ signalingState = "connected"
  /\ peer = "live"
  /\ pcState = "connected"
  /\ remoteDesc = TRUE
  /\ pendingIce = 0
  /\ readyState = "open"
  /\ timers = 0
  /\ tasks = <<>>
  /\ staleChannels = 0
  /\ txConnState = "connected"
  /\ preferDiskReceive \in BOOLEAN
  /\ preferDiskHandler = preferDiskReceive
  /\ saveHandle \in BOOLEAN
  /\ InitTransferIdle

NextXfer ==
  \/ \E i \in 1..MaxSends, f \in FileSizes :
       FramesOf(calls) + TotalChunks(f) <= MaxFrames /\ sendFile(i, f)
  \/ \E i \in 1..MaxSends : sendFileChunk(i)
  \/ onmessage
  \/ \E i \in 1..(MaxFrames + 2 * MaxSends), ok \in BOOLEAN : DiskAck(i, ok)
  \/ setPreferDiskReceive
  \/ prepareSaveLocation
  \/ channelClosed

SpecXfer == InitXfer /\ [][NextXfer]_vars

\* the sending page with an open channel and files larger than the
\* high-water mark; the transport drains the buffer at its own pace
InitDrain ==
  /\ InitXfer
  /\ ~preferDiskReceive
  /\ ~saveHandle

NextDrain ==
  \/ \E i \in 1..MaxSends, f \in DrainFileSizes :
       FramesOf(calls) + TotalChunks(f) <= BigChunks + 1 /\ sendFile(i, f)
  \/ \E i \in 1..MaxSends : sendFileChunk(i)
  \/ \E i \in 1..MaxSends : bufferDrainTimeout(i)
  \/ Drain
  \/ channelClosed
  \/ channelErrored

SpecDrain == InitDrain /\ [][NextDrain]_vars

\* a receiving page on which cleanup() may be called at any moment of a
\* transfer, of a failed session or of a reconnection
NextTeardown ==
  \/ \E f \in FileSizes : sendFile(1, f)
  \/ sendFileChunk(1)
  \/ onmessage
  \/ \E i \in 1..(MaxFrames + 2), ok \in BOOLEAN : DiskAck(i, ok)
  \/ setPreferDiskReceive
  \/ prepareSaveLocation
  \/ channelClosed
  \/ staleClose
  \/ render
  \/ reconnect
  \/ teardown

SpecTeardown == InitXfer /\ [][NextTeardown]_vars

\* the same for two one-chunk files received to disk one after the other
InitTeardownTwo ==
  /\ InitXfer
  /\ preferDiskReceive
  /\ saveHandle

NextTeardownTwo ==
  \/ \E i \in 1..MaxSends : sendFile(i, CHUNK_SIZE)
  \/ \E i \in 1..MaxSends : sendFileChunk(i)
  \/ onmessage
  \/ \E i \in 1..(MaxFrames + 2 * MaxSends), ok \in BOOLEAN : DiskAck(i, ok)
  \/ teardown

SpecTeardownTwo == InitTeardownTwo /\ [][NextTeardownTwo]_vars

\* ------------------------------------------------------------------------
\* Remote candidates, told apart (onIce, flushPendingIce)
\* ------------------------------------------------------------------------
\* peerRef.current.addIceCandidate(c): the call and what the peer does with
\* it. A peer takes a candidate when it has a remote description, or when a
\* setRemoteDescription called on it before is still running (the peer runs
\* its operations in the order of the calls); without either it rejects,
\* and both callers swallow the rejection.
TakesCandidates ==
  /\ peer = "live"
  /\ \/ remoteDesc
     \/ \E i \in DOMAIN tasks : tasks[i].ph = "sdp" /\ ~tasks[i].stale
addIceCandidate(c, queued) ==
  Append(added, [c |-> c, queued |-> queued, ok |-> TakesCandidates])

\* onIce for the next candidate, of an `ice` envelope or of an `ice-batch`
\* (whose loop awaits onIce for one candidate after the other)
onIce ==
  /\ signaling = "up"
  /\ arrived < MaxArrived
  /\ arrived' = arrived + 1
  /\ IF peer = "none" \/ ~remoteDesc
     THEN /\ iceQueue' = Append(iceQueue, arrived + 1)
          /\ pendingIce' = pendingIce + 1
          /\ UNCHANGED added
     ELSE /\ added' = addIceCandidate(arrived + 1, FALSE)
          /\ UNCHANGED <<iceQueue, pendingIce>>
  /\ ev' = Pub("none")
  /\ UNCHANGED <<flushes, cleared>>
  /\ UNCHANGED <<role, connState, connStateRef, targetPeer, targetPeerRef,
                 iceRestartCount, signaling, signalingState, peer, pcState,
                 remoteDesc, readyState, timers, tasks, staleChannels>>
  /\ UNCHANGED <<txVars, rxVars, natVars, pairVars, hist>>

\* onOffer or onAnswer resumes after setRemoteDescription and calls
\* flushPendingIce: the queue is copied and emptied, and addIceCandidate is
\* called for its first candidate; the loop then waits for that call
setRemoteDescriptionSettled(i, ok) ==
  /\ i \in DOMAIN tasks
  /\ tasks[i].ph = "sdp"
  /\ IF ~ok \/ tasks[i].stale \/ tasks[i].bad
     THEN /\ connState' = "failed"
          /\ tasks' = RemoveAt(tasks, i)
          /\ UNCHANGED <<remoteDesc, pendingIce, iceVars>>
     ELSE /\ remoteDesc' = TRUE
          /\ tasks' = IF tasks[i].k = "answer"
                      THEN [tasks EXCEPT ![i].ph = "gather"]
                      ELSE RemoveAt(tasks, i)
          /\ UNCHANGED connState
          /\ IF peer = "none" \/ iceQueue = <<>>
             THEN UNCHANGED <<pendingIce, iceVars>>
             ELSE /\ Len(flushes) < MaxFlushes
                  /\ iceQueue' = <<>>
                  /\ pendingIce' = 0
                  /\ added' = Append(added, [c |-> Head(iceQueue),
                                             queued |-> TRUE, ok |-> TRUE])
                  /\ flushes' = IF Len(iceQueue) > 1
                                THEN Append(flushes, Tail(iceQueue))
                                ELSE flushes
                  /\ UNCHANGED <<arrived, cleared>>
  /\ ev' = Pub("none")
  /\ UNCHANGED <<role, connStateRef, targetPeer, targetPeerRef, iceRestartCount,
                 signaling, signalingState, peer, pcState, readyState, timers,
                 staleChannels>>
  /\ UNCHANGED <<txVars, rxVars, natVars, pairVars, hist>>

\* the loop of a suspended flushPendingIce goes on to its next candidate,
\* which it hands to peerRef.current as it is now (a null peer throws into
\* the catch of the loop)
flushNext(f) ==
  /\ f \in DOMAIN flushes
  /\ IF peer = "none"
     THEN /\ cleared' = cleared \cup {Head(flushes[f])}
          /\ UNCHANGED added
     ELSE /\ added' = addIceCandidate(Head(flushes[f]), TRUE)
          /\ UNCHANGED cleared
  /\ flushes' = IF Len(flushes[f]) > 1
                THEN [flushes EXCEPT ![f] = Tail(flushes[f])]
                ELSE RemoveAt(flushes, f)
  /\ ev' = Pub("none")
  /\ UNCHANGED <<arrived, iceQueue>>
  /\ UNCHANGED <<sessVars, txVars, rxVars, natVars, pairVars, hist>>

\* one page of either role hearing join, offer and answer envelopes and up
\* to MaxArrived candidates in any order, restarted or reconnected at will
NextIce ==
  \/ \E k \in {"join", "offer", "answer"} :
       signal(k, "p", Me, 1, TRUE) /\ Len(tasks') <= MaxTasks
  \/ \E i \in 1..MaxTasks, ok \in BOOLEAN :
       i \in DOMAIN tasks /\ tasks[i].ph # "sdp" /\ resume(i, ok)
  \/ \E i \in 1..MaxTasks, ok \in BOOLEAN : setRemoteDescriptionSettled(i, ok)
  \/ onIce
  \/ \E f \in 1..MaxFlushes : flushNext(f)
  \/ startAsSender
  \/ joinAsReceiver
  \/ reconnect

SpecIce == Init /\ [][NextIce]_vars

\* a connected pair of either role whose transport comes and goes: every
\* `disconnected` arms its own timer, and up to MaxGrace of them are pending
InitGrace ==
  /\ role \in {"sender", "receiver"}
  /\ connState = "connected"
  /\ connStateRef = "connected"
  /\ targetPeer = "p"
  /\ targetPeerRef = "p"
  /\ iceRestartCount = 0
  /\ signaling = "up"
  /\ signalingState = "connected"
  /\ peer = "live"
  /\ pcState = "connected"
  /\ remoteDesc = TRUE
  /\ pendingIce = 0
  /\ readyState = "open"
  /\ timers = 0
  /\ tasks = <<>>
  /\ staleChannels = 0
  /\ txConnState = "connected"
  /\ preferDiskReceive = TRUE
  /\ preferDiskHandler = TRUE
  /\ saveHandle = FALSE
  /\ InitTransferIdle

NextGrace ==
  \/ \E s \in PcStates \ {"failed"} :
       onconnectionstatechange(s) /\ Len(tasks') <= MaxTasks
  \/ graceTimer /\ Len(tasks') <= MaxTasks
  \/ \E i \in 1..MaxTasks, ok \in BOOLEAN : resume(i, ok)
  \/ render

SpecGrace == InitGrace /\ [][NextGrace]_vars

\* ------------------------------------------------------------------------
\* Candidate classifier (lib/webrtc.ts) and the gathering steps that feed it
\* ------------------------------------------------------------------------
NatTypes == {"open", "cone", "restricted", "symmetric", "unknown"}

\* CandidateInfo: type, address, port (protocol and raw are not read by the
\* classifier). The classifier tests a type for srflx and for host only:
\* relay stands for the types that are neither (relay, prflx, unknown).
\* Addresses are strings, written as sequences of characters; one of them
\* holds a colon, as an IPv6 address does.
CandidateTypes == {"host", "srflx", "relay"}
Addresses == {<<"a">>, <<"a", ":", "1">>}
Ports == {1, 2, 11}
CandidateInfo == [type : CandidateTypes, address : Addresses, port : Ports]

\* a number in a template string: its decimal digits
DigitChars == <<"0", "1", "2", "3", "4", "5", "6", "7", "8", "9">>
RECURSIVE Decimal(_)
Decimal(n) ==
  IF n < 10 THEN <<DigitChars[n + 1]>>
  ELSE Decimal(n \div 10) \o <<DigitChars[(n % 10) + 1]>>

\* `${c.address}:${c.port}`
EndpointKey(c) == c.address \o <<":">> \o Decimal(c.port)

\* new Set(seq.map(f)).size
RangeOf(seq) == {seq[i] : i \in DOMAIN seq}

IsSrflx(c) == c.type = "srflx"
IsHost(c) == c.type = "host"

\* detectNatType with the endpoint count tested before the address count
detectNatType_symmetricFirst(cands) ==
  LET srflx == SelectSeq(cands, IsSrflx)
      host == SelectSeq(cands, IsHost)
      uniqueEndpoints == RangeOf([i \in DOMAIN srflx |-> EndpointKey(srflx[i])])
      uniqueAddresses == RangeOf([i \in DOMAIN srflx |-> srflx[i].address])
  IN  IF Len(srflx) = 0
      THEN IF Len(host) > 0 THEN "open" ELSE "unknown"
      ELSE IF Cardinality(uniqueEndpoints) = 1 THEN "cone"
      ELSE IF Cardinality(uniqueEndpoints) >= 3 THEN "symmetric"
      ELSE IF Cardinality(uniqueAddresses) = 1 THEN "restricted"
      ELSE "restricted"
\* detectNatType asking for more than three distinct endpoints
detectNatType_moreThanThree(cands) ==
  LET srflx == SelectSeq(cands, IsSrflx)
      host == SelectSeq(cands, IsHost)
      uniqueEndpoints == RangeOf([i \in DOMAIN srflx |-> EndpointKey(srflx[i])])
      uniqueAddresses == RangeOf([i \in DOMAIN srflx |-> srflx[i].address])
  IN  IF Len(srflx) = 0
      THEN IF Len(host) > 0 THEN "open" ELSE "unknown"
      ELSE IF Cardinality(uniqueEndpoints) = 1 THEN "cone"
      ELSE IF Cardinality(uniqueAddresses) = 1 THEN "restricted"
      ELSE IF Cardinality(uniqueEndpoints) > 3 THEN "symmetric"
      ELSE "restricted"
detectNatType(cands) ==
  LET srflx == SelectSeq(cands, IsSrflx)
      host == SelectSeq(cands, IsHost)
      uniqueEndpoints == RangeOf([i \in DOMAIN srflx |-> EndpointKey(srflx[i])])
      uniqueAddresses == RangeOf([i \in DOMAIN srflx |-> srflx[i].address])
  IN  IF Len(srflx) = 0
      THEN IF Len(host) > 0 THEN "open" ELSE "unknown"
      ELSE IF Cardinality(uniqueEndpoints) = 1 THEN "cone"
      ELSE IF Cardinality(uniqueAddresses) = 1 THEN "restricted"
      ELSE IF Cardinality(uniqueEndpoints) >= 3 THEN "symmetric"
      ELSE "restricted"

\* a negotiation sequence starts gathering with an empty local list
startGathering ==
  /\ iceGatheringState # "gathering"
  /\ iceGatheringState' = "gathering"
  /\ localCandidates' = <<>>
  /\ UNCHANGED detectedNat
  /\ ev' = Other
  /\ UNCHANGED <<sessVars, txVars, rxVars, iceVars, pairVars, hist>>

\* the onCandidate callback of waitForIceGatheringComplete
onCandidate(c) ==
  /\ iceGatheringState = "gathering"
  /\ localCandidates' = Append(localCandidates, c)
  /\ UNCHANGED <<iceGatheringState, detectedNat>>
  /\ ev' = Other
  /\ UNCHANGED <<sessVars, txVars, rxVars, iceVars, pairVars, hist>>

\* gathering completed or timed out: the sequence classifies what it has
gatheringSettled ==
  /\ iceGatheringState = "gathering"
  /\ detectedNat' = detectNatType(localCandidates)
  /\ iceGatheringState' = "complete"
  /\ UNCHANGED localCandidates
  /\ ev' = Other
  /\ UNCHANGED <<sessVars, txVars, rxVars, iceVars, pairVars, hist>>

\* the gathering steps of one page, over every candidate sequence of up to
\* MaxCandidates candidates
NextClassify ==
  \/ startGathering
  \/ \E c \in CandidateInfo :
       Len(localCandidates) < MaxCandidates /\ onCandidate(c)
  \/ gatheringSettled

SpecClassify == Init /\ [][NextClassify]_vars

\* ------------------------------------------------------------------------
\* Properties
\* ------------------------------------------------------------------------
\* the sendFile calls ran one after the other: the messages of a call start
\* right after the `done` of the call before it
OneSendAtATime ==
  \A a \in 1..(Len(sentLog) - 1) :
    \/ sentLog[a + 1].id = sentLog[a].id
    \/ sentLog[a + 1].id = sentLog[a].id + 1 /\ sentLog[a].t = "done"

\* the receiver has finished processing the `done` of the current transfer:
\* the memory branch ran, or close() of its disk writer fulfilled
DoneProcessed ==
  /\ ev.id = incomingMeta.id
  /\ \/ ev.k = "done" /\ ev.sink = "memory"
     \/ ev.k = "close" /\ ev.sink = "ok"

\* C1: when the receiver has processed the `done` of a file sent by sendFile
\* over an open channel, incomingReceived equals the file's size and equals
\* the sum of the lengths of the frames delivered since its `meta`, for
\* either sink (stated for sendFile calls that ran one after the other and
\* for runs with no failed disk write and no change of the disk preference).
C1_ReceivedAtDone ==
  (DoneProcessed /\ OneSendAtATime /\ hist.writeFailed = {} /\ hist.toggles = 0)
    => /\ incomingReceived = incomingMeta.size
       /\ incomingReceived = hist.deliveredSum

\* the messages C2 expects of one sendFile call
LastChunkLen(size) == IF size % CHUNK_SIZE = 0 THEN CHUNK_SIZE ELSE size % CHUNK_SIZE
ExpectedMessages(i, size) ==
  <<MetaMsg(i, size)>>
    \o [k \in 1..TotalChunks(size) |->
          BinMsg(i, IF k < TotalChunks(size) THEN CHUNK_SIZE ELSE LastChunkLen(size))]
    \o <<DoneMsg(i)>>

\* C2: a sendFile call that completed put on the channel one meta, then
\* ceil(size/chunkSize) frames of chunkSize bytes (the last one of the
\* remainder), then one done, with no other message in between.
C2_MessagesInOrder ==
  \A i \in DOMAIN calls :
    calls[i].pc = "done" =>
      \E j \in 1..(Len(sentLog) - TotalChunks(calls[i].size) - 1) :
        SubSeq(sentLog, j, j + TotalChunks(calls[i].size) + 1)
          = ExpectedMessages(i, calls[i].size)

\* C3: once MAX_ICE_RESTARTS consecutive loss events were handled with no
\* Connected transition in between (each one raised iceRestartCount, which a
\* Connected transition resets), connState is failed; and once a loss event
\* found the budget used up, no offer or Join is published while the counter
\* stays at its maximum.
C3_FailedAfterMaxLosses ==
  /\ iceRestartCount = MAX_ICE_RESTARTS => connState = "failed"
  /\ (hist.exhausted /\ iceRestartCount = MAX_ICE_RESTARTS)
       => ev.pub \notin {"offer", "join"}

\* C4: the restart counter stays within 0..MAX_ICE_RESTARTS.
C4_RestartCountBounded ==
  iceRestartCount \in 0..MAX_ICE_RESTARTS

\* C4 witness: a loss event found the counter at its maximum and left it
\* there, on the sender while its last restart was still in flight.
C4_Witness ==
  /\ iceRestartCount = MAX_ICE_RESTARTS
  /\ hist.exhausted
  /\ \E i \in DOMAIN tasks : tasks[i].k = "restart" /\ ~tasks[i].stale

AllowedPhaseChanges ==
  {<<"idle", "connecting">>, <<"connecting", "connected">>,
   <<"connecting", "connecting">>, <<"connected", "connecting">>,
   <<"connecting", "failed">>, <<"connected", "failed">>,
   <<"failed", "connecting">>}

\* C5: every change of connState is a transition of the state machine, or a
\* reset to idle by teardown (cleanup, which startAsSender runs and leaves
\* at idle).
C5_OnlyMachineTransitions ==
  [][connState' # connState =>
       \/ <<connState, connState'>> \in AllowedPhaseChanges
       \/ connState' = "idle" /\ startAsSender]_vars

\* C6: connState becomes connected only when the data channel is open and
\* the peer connection reports connected.
C6_ConnectedNeedsBoth ==
  [][(connState' = "connected" /\ connState # "connected")
       => (readyState' = "open" /\ pcState' = "connected")]_vars

\* C7: after the restart budget was exhausted, and until the user starts or
\* reconnects, connState stays failed and no offer, answer or Join is
\* published.
C7_FailedIsTerminal ==
  hist.exhausted =>
    /\ connState = "failed"
    /\ ev.pub \notin {"offer", "answer", "join"}

\* C8: all frames of one incoming transfer (from its meta to its done) go
\* to one sink.
C8_OneSinkPerTransfer ==
  Cardinality(hist.sinkUse) <= 1

\* C9: when a disk write of a transfer fails, connState becomes failed, the
\* writer of that transfer is never committed, and no later frame of that
\* transfer is appended to the memory accumulator.
C9_NoMemoryAfterWriteFailure ==
  /\ (ev.k = "write" /\ ev.sink = "error") => connState = "failed"
  /\ \A w \in DOMAIN writers :
       writers[w].id \in hist.writeFailed => writers[w].st # "closed"
  /\ (ev.k = "bin" /\ ev.sink = "memory") => ev.id \notin hist.writeFailed

\* C10: a `done` that arrives after a disk write of its transfer failed does
\* not report the transfer complete.
C10_NoCompletionAfterFailure ==
  (ev.k = "done" /\ ev.id \in hist.writeFailed)
    => /\ receiveProgress # Hundred
       /\ ~downloadUrl.set
       /\ savedToDiskName = 0

\* the frame just handled is the first one delivered since the last meta
FirstFrameHandled ==
  /\ ev.k = "bin"
  /\ \/ /\ ev.sink = "memory"
        /\ incomingChunks # <<>>
        /\ hist.deliveredSum = incomingChunks[Len(incomingChunks)].len
     \/ /\ ev.sink = "disk"
        /\ diskOps # <<>>
        /\ hist.deliveredSum = diskOps[Len(diskOps)].len

\* C11: when a meta was processed while the previous transfer's disk writer
\* was still open, then at the first frame of the new transfer that writer
\* is no longer open, and the byte counter and the memory accumulator hold
\* nothing but that frame.
C11_StaleSinkAborted ==
  (hist.superseded /\ FirstFrameHandled) =>
    /\ \A w \in DOMAIN writers : w # writableRef => writers[w].st # "open"
    /\ IF ev.sink = "memory"
       THEN /\ incomingChunks = <<[id |-> ev.id, len |-> hist.deliveredSum]>>
            /\ incomingReceived = hist.deliveredSum
       ELSE /\ incomingChunks = <<>>
            /\ incomingReceived = 0

\* C12: a disk writer is given up only through close() or abort(): a writer
\* that is open is the one writableRef holds, so it is never left open or
\* replaced by another writer while open (OneSendAtATime: also when the
\* files are sent one after the other).
C12_WritersClosedOnce ==
  OneSendAtATime =>
    \A w \in DOMAIN writers : writers[w].st = "open" => writableRef = w

\* a single sendFile call of a file larger than the high-water mark has
\* started (it is running or has just put its done on the channel)
LargeSendAlone ==
  /\ calls[1].pc \in {"read", "wait", "done"}
  /\ calls[1].size > CHUNK_SIZE * HighWaterChunks
  /\ \A i \in 2..MaxSends : calls[i].pc = "idle"

\* C13: while a file larger than the high-water mark is sent, bufferedAmount
\* never exceeds the high-water mark by more than one chunk.
C13_BufferWithinHighWater ==
  LargeSendAlone => bufferedAmount <= CHUNK_SIZE * HighWaterChunks + CHUNK_SIZE

\* the variables of the page (everything but the record of the last step)
pageVars == <<sessVars, txVars, rxVars>>

\* C14: cleanup() leaves connState at idle, and called a second time in a
\* row it changes nothing.
C14_TeardownIdempotent ==
  [][teardown => /\ connState' = "idle"
                 /\ (ev.k = "teardown" => pageVars' = pageVars)]_vars

\* C14 witness: cleanup() was called twice in a row on a page that had a
\* disk writer to abort and whose session had failed before.
C14_Witness ==
  /\ ev.k = "teardown" /\ ev.id = 2
  /\ connState = "idle"
  /\ hist.writeFailed # {}
  /\ \E w \in DOMAIN writers : writers[w].st \in {"aborted", "erroring"}

\* the negotiation sequences of the current session suspended at an await
\* (createOffer, onOffer, attemptIceRestart)
Negotiating ==
  {i \in DOMAIN tasks : ~tasks[i].stale /\ tasks[i].k \in {"offer", "answer", "restart"}}

\* C15: at most one createOffer, onOffer or attemptIceRestart sequence of
\* the current session is under way at a time.
C15_OneNegotiation ==
  Cardinality(Negotiating) <= 1

\* C16: between the `meta` and the `done` of one sendFile call the channel
\* carries no message of another call: a message that follows a `meta` or a
\* chunk belongs to the same call.
C16_OneOutboundTransfer ==
  \A a \in 1..(Len(sentLog) - 1) :
    sentLog[a].t # "done" => sentLog[a + 1].id = sentLog[a].id

\* C17: pendingIceRef holds candidates only while there is no peer or the
\* current peer has no remote description; whenever the current peer has a
\* remote description the queue is empty.
C17_PendingOnlyWithoutRemote ==
  /\ pendingIce > 0 => (peer = "none" \/ ~remoteDesc)
  /\ (peer # "none" /\ remoteDesc) => pendingIce = 0

\* C17 witness: a remote description was just applied on a live peer while
\* candidates were queued, and the flush emptied the queue.
C17_Witness ==
  /\ ev.k = "flush" /\ ev.id > 0
  /\ peer = "live" /\ remoteDesc
  /\ pendingIce = 0

\* the session state C18 speaks of: target peer, restart counter, connection
\* phase, queued candidates, the peer and its channel, and the negotiation
\* sequences under way
sessionVars ==
  <<targetPeer, targetPeerRef, iceRestartCount, connState, connStateRef,
    pendingIce, peer, pcState, remoteDesc, readyState, staleChannels, tasks,
    role, signaling, signalingState>>

\* C18: an envelope whose `from` is the local identity, or whose `to` is
\* present and is not the local identity, changes no session state and
\* publishes nothing, whatever its kind and payload.
C18_DiscardedEnvelopeNoEffect ==
  [][ev'.notForMe => (sessionVars' = sessionVars /\ ev'.pub = "none")]_vars

\* C18 witness: a sender with the relay up and no peer yet has just handled
\* an envelope that was not for it, and still has no peer, no target and no
\* sequence started.
C18_Witness ==
  /\ ev.notForMe
  /\ role = "sender" /\ signaling = "up"
  /\ peer = "none" /\ targetPeerRef = "none" /\ tasks = <<>>

\* C19: incomingReceived never decreases within a transfer; the only steps
\* that lower it set it to 0 and are a new `meta` message or a teardown.
C19_ReceivedMonotone ==
  [][incomingReceived' < incomingReceived
       => /\ incomingReceived' = 0
          /\ ev'.k \in {"meta", "teardown"}]_vars

\* C19 witness: frames of a transfer were counted (by the memory sink or on
\* the fulfilment of a disk write) up to the size of the file, and a
\* teardown has set the counter back to 0.
C19_Witness ==
  /\ ev.k = "teardown"
  /\ incomingReceived = 0
  /\ hist.deliveredSum = 700000
  /\ \/ hist.sinkUse = {"memory"}
     \/ \E w \in DOMAIN writers : writers[w].bytes = 700000

\* the last step counted a binary frame: the memory sink took it, or the
\* disk write of it fulfilled
FrameCounted ==
  \/ ev.k = "bin" /\ ev.sink = "memory"
  \/ ev.k = "write" /\ ev.sink = "ok"

\* totalSize as the progress computation sees it (1 with no meta recorded)
TotalSize == IF incomingMeta = NoMeta THEN 1 ELSE incomingMeta.size

C21_EmptyFileRejected ==
  [][\A i \in 1..MaxSends :
       sendFile(i, 0) => UNCHANGED <<sentLog, txConnState, connState, sendProgress>>]_vars

\* C21 witness: on an open channel, after a first file was sent whole, the
\* second call was made with an empty file: it is rejected, the channel
\* carries the messages of the first call only and the progress still reads
\* 100.
C21_Witness ==
  /\ readyState = "open"
  /\ calls[1].pc = "done"
  /\ calls[2].pc = "rejected" /\ calls[2].size = 0
  /\ sentLog = ExpectedMessages(1, calls[1].size)
  /\ sendProgress = Hundred
  /\ txConnState = "connected"

\* the order C22 gives to the steps of a teardown
TeardownOrder ==
  <<"abort sink", "unsubscribe", "close relay", "close channel", "close peer",
    "clear queue", "clear progress">>

\* the calls are made in that order
InTeardownOrder(calls_) ==
  \A a, b \in DOMAIN calls_ :
    a < b => \E x, y \in DOMAIN TeardownOrder :
               x < y /\ TeardownOrder[x] = calls_[a] /\ TeardownOrder[y] = calls_[b]

\* C22: teardown aborts the open disk sink, unsubscribes from the relay,
\* closes the channel, closes the peer and clears the candidate queue and
\* the progress, in this order; after it there is no open sink, no
\* subscription, no channel, no peer, an empty queue and progress 0,
\* whatever the state it started from.
C22_TeardownClearsAll ==
  [][teardown =>
       /\ InTeardownOrder(cleanupCalls)
       /\ writableRef' = 0
       /\ \A w \in DOMAIN writers' : writers'[w].st # "open"
       /\ signaling' = "none"
       /\ readyState' = "none"
       /\ peer' = "none"
       /\ pendingIce' = 0
       /\ sendProgress' = Zero /\ receiveProgress' = Zero
       /\ incomingReceived' = 0]_vars

\* the messages of call i on the channel
MessagesOf(i, log) == SelectSeq(log, LAMBDA m : m.id = i)

\* call i is waiting for the buffer to drain and this step is the 6 s timeout
\* finding bufferedAmount still above the mark (CHUNK_SIZE * 8), or the close
\* or the error of the channel
WaitBroken(i) ==
  /\ calls[i].pc = "wait"
  /\ \/ bufferDrainTimeout(i) /\ bufferedAmount > CHUNK_SIZE * HighWaterChunks
     \/ channelClosed
     \/ channelErrored

\* C23: when the wait for the buffer to drain ends by its timeout with the
\* buffer still above the mark, or by the close or error of the channel, the
\* transfer has failed and connState is failed; a failed transfer stays
\* failed and no further frame and no `done` of it is put on the channel.
C23_BrokenWaitFailsTransfer ==
  [][\A i \in 1..MaxSends :
       /\ WaitBroken(i) => (calls'[i].pc = "failed" /\ txConnState' = "failed")
       /\ calls[i].pc = "failed" =>
            /\ calls'[i] = calls[i]
            /\ MessagesOf(i, sentLog') = MessagesOf(i, sentLog)
            /\ DoneMsg(i) \notin {sentLog[a] : a \in DOMAIN sentLog}]_vars

\* C23 witness: the 9-chunk transfer failed while the channel is still open
\* and the buffer above the mark (its wait timed out); 8 of its frames and
\* no `done` are on the channel.
C23_Witness ==
  \E i \in 1..MaxSends :
    /\ calls[i].pc = "failed" /\ calls[i].size = BigChunks * CHUNK_SIZE
    /\ readyState = "open"
    /\ bufferedAmount > CHUNK_SIZE * HighWaterChunks
    /\ txConnState = "failed"
    /\ Len(MessagesOf(i, sentLog)) = HighWaterChunks + 1

\* the peer connection and its channel as the page holds them
sessionObject == <<peer, pcState, remoteDesc, readyState, staleChannels>>

\* C24: handling a malformed envelope (no object as data, an unknown kind, a
\* payload that has not the shape of its kind), up to the end of its
\* handler, changes connState in no step, and closes or replaces no peer.
C24_MalformedDropped ==
  [][ev'.malformed =>
       /\ connState' = connState
       /\ peer # "none" => sessionObject' = sessionObject]_vars

\* this step is the rejection of setRemoteDescription(offer or answer) on
\* the current peer, in the sequence suspended as tasks[i]
ApplyFailed(i) ==
  /\ i \in DOMAIN tasks
  /\ tasks[i].ph = "sdp" /\ ~tasks[i].stale
  /\ resume(i, FALSE)

\* C25: a failed application of a remote offer or answer is handled as a
\* loss of connectivity: while restarts remain the restart counter is
\* incremented and connState does not become failed; connState becomes
\* failed only with the budget used up.
C25_ApplyFailureRestarts ==
  [][\A i \in 1..MaxOverlap :
       ApplyFailed(i) =>
         IF iceRestartCount < MAX_ICE_RESTARTS
         THEN iceRestartCount' = iceRestartCount + 1 /\ connState' # "failed"
         ELSE connState' = "failed"]_vars

ReflexiveAt(cands) == {i \in DOMAIN cands : cands[i].type = "srflx"}
ReflexivePairs(cands) ==
  {<<cands[i].address, cands[i].port>> : i \in ReflexiveAt(cands)}
ReflexiveAddresses(cands) == {cands[i].address : i \in ReflexiveAt(cands)}
ReferenceNat(cands) ==
  LET pairs == Cardinality(ReflexivePairs(cands))
      addresses == Cardinality(ReflexiveAddresses(cands))
  IN  CASE ReflexiveAt(cands) = {} /\ (\E i \in DOMAIN cands : cands[i].type = "host")
             -> "open"
        [] ReflexiveAt(cands) = {} /\ ~(\E i \in DOMAIN cands : cands[i].type = "host")
             -> "unknown"
        [] ReflexiveAt(cands) # {} /\ pairs = 1 -> "cone"
        [] pairs > 1 /\ addresses = 1 -> "restricted"
        [] pairs >= 3 /\ addresses > 1 -> "symmetric"
        [] pairs = 2 /\ addresses > 1 -> "restricted"

\* C27: detectNatType returns a NAT type for every candidate sequence, the
\* empty one included, and it is the one of the reference algorithm: without
\* a server-reflexive candidate open if there is a host candidate and unknown
\* if not; otherwise cone for one distinct (address, port) pair, restricted
\* for several pairs on one address, symmetric for three or more pairs, and
\* restricted for what is left. Classifying leaves the sequence as it was.
C27_ClassifierMatchesReference ==
  iceGatheringState = "complete" =>
    /\ detectedNat \in NatTypes
    /\ detectedNat = ReferenceNat(localCandidates)
C27_Witness ==
  /\ iceGatheringState = "complete"
  /\ Len(localCandidates) = 3
  /\ Cardinality(ReflexivePairs(localCandidates)) = 2
  /\ Cardinality(ReflexiveAddresses(localCandidates)) = 2
  /\ \E i \in DOMAIN localCandidates : localCandidates[i].type = "host"
  /\ detectedNat = "restricted"

\* three server-reflexive candidates with three distinct (address, port) pairs
ThreeDistinctPairs ==
  /\ Cardinality(ReflexiveAt(localCandidates)) >= 3
  /\ Cardinality(ReflexivePairs(localCandidates)) >= 3

\* C28 as stated: a sequence with three server-reflexive candidates of three
\* distinct (address, port) pairs is classified symmetric, whatever the
\* addresses.
C28_ThreePairsSymmetric ==
  (iceGatheringState = "complete" /\ ThreeDistinctPairs) =>
    detectedNat = "symmetric"
\* C28 amended: such a sequence is classified symmetric when its reflexive
\* candidates show at least two addresses, and restricted when they all
\* share one address.
C28_ThreePairsSymmetricAcrossAddresses ==
  (iceGatheringState = "complete" /\ ThreeDistinctPairs) =>
    detectedNat = IF Cardinality(ReflexiveAddresses(localCandidates)) >= 2
                  THEN "symmetric" ELSE "restricted"
C28_Witness ==
  /\ iceGatheringState = "complete"
  /\ ThreeDistinctPairs
  /\ Cardinality(ReflexiveAddresses(localCandidates)) = 2
  /\ detectedNat = "symmetric"

\* a step of a grace timer that goes on to a restart attempt
GraceRestart ==
  /\ graceTimer
  /\ iceRestartCount' = iceRestartCount + 1

\* C30: a `disconnected` that is over before its 2 s have elapsed triggers
\* no restart and leaves iceRestartCount alone, and one that lasts longer
\* triggers exactly one restart attempt, also when several `disconnected`
\* events fall within 2 s. The timers all run 2 s, so they fire in the order
\* they were armed: a restart attempt made while a later timer is still
\* pending is made before the disconnection of that later timer has lasted
\* 2 s, and that later timer finds the transport disconnected again. So a
\* grace timer that restarts must be the only one pending.
C30_OneRestartPerDisconnection ==
  [][GraceRestart => timers = 1]_vars

\* the candidates that went through the queue and that no cleanup or
\* reconnect found waiting
QueuedCalls == {k \in DOMAIN added : added[k].queued /\ added[k].c \notin cleared}

\* C29: a candidate heard while the current peer has a remote description
\* is handed to it at once; any other is queued, and once the remote
\* description is set every queued candidate is applied, in the order of
\* arrival, unless a teardown or a reconnect cleared the queue; none is lost
\* and none is applied twice. As a statement about every state: each
\* candidate heard is in the queue, in a running flush, handed to the peer or
\* cleared; no candidate is handed over twice; the queued ones are handed
\* over in their order of arrival and to a peer that takes them.
C29_QueuedCandidatesApplied ==
  /\ \A c \in 1..arrived :
       \/ c \in Waiting
       \/ c \in cleared
       \/ \E k \in DOMAIN added : added[k].c = c
  /\ \A j, k \in DOMAIN added : j < k => added[j].c # added[k].c
  /\ \A j, k \in QueuedCalls : j < k => added[j].c < added[k].c
  /\ \A k \in QueuedCalls : added[k].ok
  /\ \A k \in DOMAIN added : ~added[k].queued => added[k].ok

\* C31: on a `meta` message the disk sink is chosen (createWritable is
\* called) exactly when the role is receiver, a save handle is held and the
\* disk preference is set as it stands when the message arrives; otherwise
\* the memory sink is chosen. In neither case does the step change connState.
C31_SinkByCurrentPreference ==
  [][(onmessage /\ ev'.k = "meta") =>
       /\ (Len(diskOps') > Len(diskOps))
            <=> (role = "receiver" /\ saveHandle /\ preferDiskReceive)
       /\ activeReceiveMode' = "memory" \/ Len(diskOps') > Len(diskOps)
       /\ connState' = connState]_vars

\* writes that were issued on writer w and have not settled
WritesInFlight(w) == {j \in DOMAIN diskOps : diskOps[j].k = "write" /\ diskOps[j].w = w}

\* C32: the `done` handler commits the disk sink (calls close() on the
\* writer) only when no write of an earlier frame is still in flight on it,
\* and no write is issued on a writer whose close() or abort() has been
\* called.
C32_CommitAfterWrites ==
  [][/\ (onmessage /\ ev'.k = "done" /\ ev'.sink = "disk")
          => WritesInFlight(writableRef) = {}
     /\ (onmessage /\ ev'.k = "bin" /\ ev'.sink = "disk")
          => writers[writableRef].st = "open"]_vars
\* the handshake of two pages, with every step of it weakly fair
SpecPair == Init /\ [][NextPair]_vars /\ FairPair


\* ------------------------------------------------------------------------
\* Handshake of two pages
\* ------------------------------------------------------------------------
Joined == pages["r"].sig
BothConnected ==
  \A p \in Parties : pages[p].connState = "connected" /\ pages[p].ch = "open"

\* C33: once the receiver has joined the sender's room, with the relay
\* delivering every envelope and the transport connecting matched peers,
\* both pages eventually show connected with an open channel, and the join
\* has been answered by exactly one offer and that offer by exactly one
\* answer.
C33_HandshakeCompletes ==
  /\ Joined ~> (/\ BothConnected
                /\ published["offer"] = 1
                /\ published["answer"] = 1)
  /\ [](published["offer"] <= 1 /\ published["answer"] <= 1)

C33_Witness ==
  /\ BothConnected
  /\ Matched
  /\ published["join"] = 1
  /\ published["offer"] = 1
  /\ published["answer"] = 1

\* ------------------------------------------------------------------------
\* Two pages whose transport never connects
\* ------------------------------------------------------------------------
\* the pair after the receiver has joined, with a transport that starts
\* connecting and fails again and again and never connects. The runs keep
\* at most MaxSequences suspended sequences a page and MaxRelay envelopes in
\* flight, and follow a page through MaxAuto automatic restarts.
InLossBounds ==
  /\ Len(relay') <= MaxRelay
  /\ \A p \in Parties : Len(sequences'[p]) <= MaxSequences

NextPairLoss ==
  \/ pairJoinAsReceiver /\ InLossBounds
  \/ hear /\ InLossBounds
  \/ \E p \in Parties, i \in 1..MaxSequences, ok \in BOOLEAN :
       proceed(p, i, ok) /\ InLossBounds
  \/ \E p \in Parties, s \in {"connecting", "failed"} :
       pages[p].auto < MaxAuto /\ pairConnectionState(p, s) /\ InLossBounds

SpecPairLoss == Init /\ [][NextPairLoss]_vars

\* C35: with a transport that never connects, a page goes through at most
\* MAX_ICE_RESTARTS automatic restarts (offers republished by the sender,
\* joins republished by the receiver) before it shows failed.
C35_RestartLoopTerminates ==
  \A p \in Parties : pages[p].auto <= MAX_ICE_RESTARTS
\* one negotiation step after another waiting for its candidates
SpecGather == Init /\ [][NextGather]_vars /\ FairGather


\* ------------------------------------------------------------------------
\* The gathering wait of a negotiation step
\* ------------------------------------------------------------------------
DescriptionSent ==
  /\ Len(wait.sent) >= 1
  /\ wait.sent[1].kind = DescriptionOf(wait.step)

\* the wait has ended once, and only when gathering completed, the null
\* candidate came or the timeout fired
EndedOnce ==
  /\ wait.finishes <= 1
  /\ wait.ph \in {"resolved", "published", "done"}
       => /\ wait.settled \/ (wait.state = "complete" /\ wait.finishes = 0)
          /\ ~wait.timer /\ ~wait.listening
  /\ wait.ph = "waiting" => wait.timer /\ wait.listening /\ ~wait.settled

\* the batch comes second, after the description, with the candidates
\* fired during the wait; with none there is no batch
BatchAfterDescription ==
  /\ Len(wait.sent) <= 2
  /\ \A i \in DOMAIN wait.sent :
       IF i = 1
       THEN wait.sent[i].kind = DescriptionOf(wait.step)
       ELSE /\ wait.sent[i].kind = "ice-batch"
            /\ wait.sent[i].payload = wait.during
            /\ wait.during # <<>>
  /\ wait.ph = "done" /\ wait.during # <<>> => Len(wait.sent) = 2

\* C34: the wait of an offer, answer or restart offer ends exactly once, on
\* completed gathering or on the timeout; the description is published
\* whether or not gathering completes, and the batch only after it, with
\* exactly the candidates collected during the wait.
C34_WaitEndsOnceThenPublishes ==
  /\ [](EndedOnce /\ BatchAfterDescription)
  /\ (wait.ph = "waiting") ~> DescriptionSent

\* a wait ended by its timeout with gathering still going on, description
\* and batch published
C34_Witness ==
  /\ wait.ph = "done"
  /\ wait.state = "gathering"
  /\ wait.finishes = 1
  /\ Len(wait.gathered) = 2
  /\ wait.emitted = 3
  /\ Len(wait.sent) = 2

\* C36: the close event of a channel that makePeerConnection replaced or
\* reconnect closed leaves connState as it is; after reconnect it stays
\* connecting until the new session reports a state.
C36_SupersededCloseKeepsPhase ==
  [][staleClose => connState' = connState]_vars

\* ------------------------------------------------------------------------
\* Teardown under a suspended negotiation
\* ------------------------------------------------------------------------
\* the page with one suspended negotiation sequence at a time, torn down at
\* any moment
NextStop ==
  \/ \E k \in EnvelopeKinds, from \in RemotePeers :
       signal(k, from, Me, 1, TRUE) /\ InMalformedBounds
  \/ \E i \in 1..MaxTasks, ok \in BOOLEAN : resume(i, ok)
  \/ \E s \in PcStates : onconnectionstatechange(s) /\ InMalformedBounds
  \/ graceTimer /\ InMalformedBounds
  \/ staleClose
  \/ startAsSender
  \/ joinAsReceiver
  \/ teardown

SpecStop == Init /\ [][NextStop]_vars

TornDown == signaling = "none" /\ connState = "idle"

\* C37: from teardown to the next start, connState stays idle and nothing
\* is published, whatever handlers resume in between.
C37_QuietAfterTeardown ==
  [][TornDown /\ signaling' = "none"
       => connState' = "idle" /\ ev'.pub = "none"]_vars

\* ------------------------------------------------------------------------
\* Envelopes delivered twice
\* ------------------------------------------------------------------------
\* the page of one remote peer whose envelopes the relay may deliver more
\* than once, with every awaited call on a live peer resolving
NextDuplicate ==
  \/ \E k \in EnvelopeKinds : signal(k, "p", Me, 1, TRUE) /\ InNegotiateBounds
  \/ \E i \in 1..MaxOverlap : resume(i, TRUE)
  \/ render
  \/ signaling = "none" /\ startAsSender
  \/ signaling = "none" /\ joinAsReceiver

SpecDuplicate == Init /\ [][NextDuplicate]_vars

\* C38: a join or an offer delivered twice does not bring connState to
\* failed: the handler that worked on the replaced peer reports nothing for
\* the current one.
C38_DuplicateNotFailed == connState # "failed"

\* ------------------------------------------------------------------------
\* Envelopes of a third peer
\* ------------------------------------------------------------------------
\* the page with two remote peers in the room, every awaited call on a live
\* peer resolving and the transport connecting
NextThird ==
  \/ \E k \in EnvelopeKinds, from \in RemotePeers :
       signal(k, from, Me, 1, TRUE) /\ InMalformedBounds
  \/ \E i \in 1..MaxTasks : resume(i, TRUE)
  \/ onconnectionstatechange("connected") /\ InMalformedBounds
  \/ ondatachannel
  \/ onopen
  \/ signaling = "none" /\ startAsSender
  \/ signaling = "none" /\ joinAsReceiver

SpecThird == Init /\ [][NextThird]_vars

\* a join of q does not take over a sender connected to p
JoinOfThirdIgnored ==
  /\ role = "sender" /\ connState = "connected" /\ targetPeer = "p"
  /\ signal("join", "q", Me, 1, TRUE)
  => /\ UNCHANGED <<targetPeer, targetPeerRef, iceRestartCount, peer, pcState,
                    remoteDesc, readyState, staleChannels, connState,
                    connStateRef, tasks>>
     /\ ev'.pub = "none"

\* an answer or a candidate of q is not applied to the session with p: no
\* negotiation sequence starts for it and it is not queued
FromThirdNotApplied ==
  \A k \in {"answer", "ice", "ice-batch"} :
    targetPeerRef = "p" /\ signal(k, "q", Me, 1, TRUE)
      => UNCHANGED <<tasks, pendingIce>>

\* C39: while the sender is connected to p, a join of q changes nothing,
\* and on both roles an answer, ice or ice-batch envelope is applied only
\* when it comes from the current target peer.
C39_TwoPartiesOnly ==
  [][JoinOfThirdIgnored /\ FromThirdNotApplied]_vars
====
